---- MODULE Spec2Model ----
(***************************************************************************)
(* A model of the hierarchical memory manager: the FIFO message queue with *)
(* memory-pressure warning and eviction (memory/queue_manager.py), the     *)
(* token accounting it relies on (utils/token_counter.py), the recall      *)
(* store it evicts into (persistence/sqlite_store.py) and the heartbeat    *)
(* loop of the agent (agents/agent.py, functions/executor.py).             *)
(*                                                                         *)
(* Text is modelled as a sequence of tokens; the tokenizer (tiktoken) maps *)
(* a text to its tokens, so count_tokens is the length of the sequence.    *)
(* Thresholds are percentages, compared by cross-multiplication.           *)
(***************************************************************************)
EXTENDS Integers, Sequences, FiniteSets, TLC

VARIABLES
    config,     \* QueueManager.__init__ arguments: max_tokens, thresholds, summarize_func
    queue,      \* QueueManager.queue: <<summary, message 1, message 2, ...>>
    recall,     \* the message_history table: [rows, seq], seq the last AUTOINCREMENT id
    entered,    \* history: every message that entered the queue, in order
    cleared,    \* history: clear_queue was called
    last,       \* history: the last queue-manager call, with the state it started from
    nops,       \* number of queue-manager calls made so far
    core_memory, \* CoreMemory.sections: <<[name, content], ...>> in insertion order
    pc,         \* MemGPTAgent.step: "Idle" (not called yet), "Loop" (top of the heartbeat loop), "Returned"
    iteration,  \* step's local variable iteration
    outcome,    \* the dictionary the last step returned
    dispatch,   \* history: what the last heartbeat iteration of this turn did
    llm_calls,  \* history: LLM completion calls made in this turn
    detours,    \* history: iterations of this turn counted against the bound on the LLM's answers
    turns,      \* history: calls of step made so far
    trace,      \* history: what each heartbeat iteration of this turn did, in order
    applied,    \* history: the last operation applied to a component on its own, with its result
    issued,     \* history: the ids the recall store returned from its inserts, in order
    archival_storage, \* the Chroma collection: <<[id, content], ...>> in insertion order
    executor_memory   \* FunctionExecutor.core_memory: the agent's CoreMemory object
                      \* (shared) or an object of its own, with its sections

qvars == <<config, queue, recall, entered, cleared, last, nops>>
avars == <<core_memory, pc, iteration, outcome, dispatch, llm_calls, detours, turns, trace>>
pvars == <<applied, issued, archival_storage, executor_memory>>
vars == <<config, queue, recall, entered, cleared, last, nops,
          core_memory, pc, iteration, outcome, dispatch, llm_calls, detours, turns, trace,
          applied, issued, archival_storage, executor_memory>>

(***************************** bounds *************************************)
MaxOps == 4
MaxTokens == 40
MaxDetours == 2
MaxLiveDetours == 0
MaxProbes == 1
MaxTurns == 2
MaxEvictTurns == 3
MaxPressureTurns == 3
MaxResetTurns == 2
MaxEdits == 1
MaxSession == 3
MaxMinute == 1
MaxCoreOps == 3
MaxExecOps == 2
MaxStoreOps == 3
MaxLimit == 2
MaxDocs == 3
MaxInserts == 2
MaxMessages == 3
MaxStrings == 3
MaxPage == 2
AgentMaxTokens == 150
CharsPerToken == 125

(*********************** program constants ********************************)
PerMessageOverhead == 4
ReplyPrimer == 2
DefaultWarningPct == 70
DefaultFlushPct == 95
SummaryCharLimit == 500
max_iterations == 10

(***************************** texts **************************************)
Max(a, b) == IF a >= b THEN a ELSE b
Min(a, b) == IF a <= b THEN a ELSE b

None == << >>

\* an empty Chroma collection, and an executor holding the agent's own
\* CoreMemory object (FunctionExecutor.__init__ keeps the reference)
EmptyCollection == << >>
SharedMemory == [shared |-> TRUE, sections |-> << >>]
NoMetadata == << >>
EmptySummaryText == <<"Conversation summary:", "No previous interactions.">>
WarningText == <<"System Alert:", "Memory pressure", "detected. Save important data immediately.">>
RecentActivityText == <<"\n\n", "Recent", " activity", ":">>
EllipsisText == <<"...">>

\* 'Memory pressure' in content
Contains(text, tok) == \E i \in 1..Len(text) : text[i] = tok

RoleText(role) == <<role>>
Upper(role) ==
    CASE role = "user" -> "USER"
      [] role = "assistant" -> "ASSISTANT"
      [] role = "system" -> "SYSTEM"
      [] role = "function" -> "FUNCTION"
      [] role = "persona" -> "PERSONA"
      [] role = "human" -> "HUMAN"
      [] role = "notes" -> "NOTES"
      [] OTHER -> role

Message(role, content, metadata) ==
    [role |-> role, content |-> content, metadata |-> metadata]

EmptySummary == Message("system", EmptySummaryText, NoMetadata)
WarningMsg == Message("system", WarningText, NoMetadata)

(************************** TokenCounter **********************************)
count_tokens(text) == Len(text)

MessageTokens(m) ==
    PerMessageOverhead + count_tokens(RoleText(m.role))
        + count_tokens(m.content) + count_tokens(m.metadata)

RECURSIVE SumFrom(_, _)
SumFrom(msgs, i) ==
    IF i > Len(msgs) THEN 0
    ELSE MessageTokens(msgs[i]) + SumFrom(msgs, i + 1)

SumMessageTokens(msgs) == SumFrom(msgs, 1)

count_message_tokens(msgs) ==
    IF msgs = << >> THEN 0 ELSE SumMessageTokens(msgs) + ReplyPrimer

\* count_message_tokens on message dictionaries of any shape. A dictionary is
\* a sequence of [key, value] items; a value has a Python type (kind), the
\* tokens of its text (a str's own text, str(value) otherwise) and, for a
\* list, its items.
Value(kind, text, items) == [kind |-> kind, text |-> text, items |-> items]

\* one item of a list value: str counted, dict stringified, others skipped
ItemTokens(item) ==
    CASE item.kind = "str" -> count_tokens(item.text)
      [] item.kind = "dict" -> count_tokens(item.text)
      [] OTHER -> 0

RECURSIVE ItemsFrom(_, _)
ItemsFrom(items, i) ==
    IF i > Len(items) THEN 0 ELSE ItemTokens(items[i]) + ItemsFrom(items, i + 1)

\* one value of a message: str, list and dict counted, others skipped
ValueTokens(value) ==
    CASE value.kind = "str" -> count_tokens(value.text)
      [] value.kind = "list" -> ItemsFrom(value.items, 1)
      [] value.kind = "dict" -> count_tokens(value.text)
      [] OTHER -> 0

RECURSIVE ValuesFrom(_, _)
ValuesFrom(message, i) ==
    IF i > Len(message) THEN 0
    ELSE ValueTokens(message[i].value) + ValuesFrom(message, i + 1)

RECURSIVE DictsFrom(_, _)
DictsFrom(messages, i) ==
    IF i > Len(messages) THEN 0
    ELSE PerMessageOverhead + ValuesFrom(messages[i], 1) + DictsFrom(messages, i + 1)

TokenCounter_count_message_tokens(messages) ==
    IF messages = << >> THEN 0 ELSE DictsFrom(messages, 1) + ReplyPrimer

\* a queue message as the dictionary add_message builds
AsDict(m) ==
    <<[key |-> "role", value |-> Value("str", RoleText(m.role), << >>)],
      [key |-> "content", value |-> Value("str", m.content, << >>)]>>
    \o (IF m.metadata # NoMetadata
        THEN <<[key |-> "metadata", value |-> Value("dict", m.metadata, << >>)]>>
        ELSE << >>)

(************************ SQLiteRecallStorage *****************************)
EmptyStore == [rows |-> << >>, seq |-> 0]

\* mutant: INTEGER PRIMARY KEY without AUTOINCREMENT, the next id is one more
\* than the largest id in the table
insert_message_reuses_ids(store, role, content, metadata) ==
    LET ids == {store.rows[i].id : i \in 1..Len(store.rows)}
        next == IF ids = {} THEN 1 ELSE 1 + CHOOSE m \in ids : \A x \in ids : x <= m
    IN  [rows |-> Append(store.rows,
                         [id |-> next, role |-> role,
                          content |-> content, metadata |-> metadata]),
         seq |-> next]

\* the row without its timestamp column; seq is the AUTOINCREMENT counter
insert_message(store, role, content, metadata) ==
    [rows |-> Append(store.rows,
                     [id |-> store.seq + 1, role |-> role,
                      content |-> content, metadata |-> metadata]),
     seq |-> store.seq + 1]

\* insert_message with its timestamp column: the one given, or
\* CURRENT_TIMESTAMP, which the caller of this operator supplies
insert_message_at(store, role, content, timestamp, metadata) ==
    LET s == insert_message(store, role, content, metadata)
        row == s.rows[Len(s.rows)]
    IN  [rows |-> [s.rows EXCEPT ![Len(s.rows)] =
                      [id |-> row.id, role |-> row.role, content |-> row.content,
                       metadata |-> row.metadata, timestamp |-> timestamp]],
         seq |-> s.seq]

\* cursor.lastrowid after the insert
lastrowid(store) == store.rows[Len(store.rows)].id

delete_message(store, message_id) ==
    [ok |-> \E i \in 1..Len(store.rows) : store.rows[i].id = message_id,
     store |-> [store EXCEPT !.rows = SelectSeq(@, LAMBDA row : row.id # message_id)]]

clear_all(store) == [store EXCEPT !.rows = << >>]

\* ORDER BY timestamp names no second key: the order of rows with equal
\* timestamps is the engine's, rowid ascending or rowid descending according
\* to the direction in which it walks idx_timestamp
TieOrders == {"id ascending", "id descending"}

\* rows in ORDER BY timestamp DESC (descending = TRUE) or ASC order
OrderByTimestamp(rows, descending, ties) ==
    LET S == {rows[i] : i \in 1..Len(rows)}
        Before(a, b) ==
            IF a.timestamp # b.timestamp
            THEN IF descending THEN a.timestamp > b.timestamp
                               ELSE a.timestamp < b.timestamp
            ELSE IF ties = "id ascending" THEN a.id < b.id ELSE a.id > b.id
    IN  [k \in 1..Len(rows) |->
            CHOOSE r \in S : Cardinality({x \in S : Before(x, r)}) = k - 1]

\* LIMIT limit OFFSET offset, both natural numbers
LimitOffset(rows, limit, offset) ==
    SubSeq(rows, offset + 1, IF offset + limit < Len(rows) THEN offset + limit
                                                           ELSE Len(rows))

\* content LIKE %query%
Like(content, query) ==
    \E i \in 1..(Len(content) + 1) :
        /\ i + Len(query) - 1 <= Len(content)
        /\ SubSeq(content, i, i + Len(query) - 1) = query

\* mutant: the engine walks the index one way for the first page and the
\* other way for the later ones
search_messages_ties_by_offset(store, query, limit, offset, ties) ==
    LimitOffset(OrderByTimestamp(SelectSeq(store.rows, LAMBDA row : Like(row.content, query)),
                                 TRUE,
                                 IF offset = 0 THEN "id ascending" ELSE "id descending"),
                limit, offset)

search_messages(store, query, limit, offset, ties) ==
    LimitOffset(OrderByTimestamp(SelectSeq(store.rows, LAMBDA row : Like(row.content, query)),
                                 TRUE, ties),
                limit, offset)

Reversed(rows) == [i \in 1..Len(rows) |-> rows[Len(rows) + 1 - i]]

get_recent_messages(store, limit, ties) ==
    Reversed(LimitOffset(OrderByTimestamp(store.rows, TRUE, ties), limit, 0))

get_all_messages(store, ties) == OrderByTimestamp(store.rows, FALSE, ties)

(*********************** ChromaArchivalStorage ****************************)
\* The embedding model as far as a ranking needs it: a text is embedded as
\* the number of times each word of the vocabulary occurs in it, and the
\* collection's distance is the squared L2 distance of two embeddings.
Vocabulary == <<"hello", "there", "bye">>

Occurrences(text, word) == Cardinality({i \in 1..Len(text) : text[i] = word})

generate_embedding(text) ==
    [k \in 1..Len(Vocabulary) |-> Occurrences(text, Vocabulary[k])]

RECURSIVE SquaredFrom(_, _, _)
SquaredFrom(a, b, k) ==
    IF k > Len(a) THEN 0
    ELSE (a[k] - b[k]) * (a[k] - b[k]) + SquaredFrom(a, b, k + 1)

Distance(a, b) == SquaredFrom(a, b, 1)

\* insert: collection.add of one document under a fresh id (uuid4; here the
\* number of the insertion, the collection of this model is never emptied)
ChromaArchivalStorage_insert(collection, content) ==
    Append(collection, [id |-> Len(collection) + 1, content |-> content,
                        embedding |-> generate_embedding(content)])

\* the whole collection, nearest to the query embedding first; the order of
\* equidistant documents is the index's
Nearest(collection, query_embedding, ties) ==
    LET S == {collection[i] : i \in 1..Len(collection)}
        d(doc) == Distance(doc.embedding, query_embedding)
        Before(a, b) ==
            IF d(a) # d(b) THEN d(a) < d(b)
            ELSE IF ties = "id ascending" THEN a.id < b.id ELSE a.id > b.id
    IN  [k \in 1..Len(collection) |->
            CHOOSE r \in S : Cardinality({x \in S : Before(x, r)}) = k - 1]

\* collection.query asked for no result at all: Chroma either rejects the
\* number or answers with empty lists, according to its release
ZeroResults == {"raises", "empty lists"}

\* collection.query(query_embeddings=[e], n_results=n)
collection_query(collection, query_embedding, n_results, ties, on_zero) ==
    IF n_results <= 0
    THEN [raised |-> on_zero = "raises", rows |-> << >>]
    ELSE [raised |-> FALSE,
          rows |-> SubSeq(Nearest(collection, query_embedding, ties), 1,
                          Min(n_results, Len(collection)))]

\* search(query, limit, offset), offset a natural number: over-fetch
\* offset + limit results and slice; similarity = 1 - distance
ChromaArchivalStorage_search(collection, query, limit, offset, ties, on_zero) ==
    LET query_embedding == generate_embedding(query)
        results == collection_query(collection, query_embedding,
                                    Min(offset + limit, Len(collection)), ties, on_zero)
        rows == SubSeq(results.rows, offset + 1,
                       Min(Len(results.rows), offset + limit))
    IN  [raised |-> results.raised,
         documents |->
            [i \in 1..Len(rows) |->
                [id |-> rows[i].id, content |-> rows[i].content,
                 similarity |-> 1 - Distance(rows[i].embedding, query_embedding)]]]

(************************** SessionIngester *******************************)
\* A parsed JSON document: a string (its text), a list (its items) or an
\* object (its [key, value] items in file order).
JStr(text) == [kind |-> "str", text |-> text, items |-> << >>]
JList(items) == [kind |-> "list", text |-> << >>, items |-> items]
JDict(items) == [kind |-> "dict", text |-> << >>, items |-> items]
Item(key, value) == [key |-> key, value |-> value]

HasKey(d, key) == \E i \in 1..Len(d.items) : d.items[i].key = key
ValueOf(d, key) ==
    d.items[CHOOSE i \in 1..Len(d.items) : d.items[i].key = key].value
IsList(v) == v.kind = "list"
IsDict(v) == v.kind = "dict"

NowText == <<"now">>

\* _convert_strings_to_messages: roles alternate by index, starting with user
convert_strings_to_messages(string_messages) ==
    [i \in 1..Len(string_messages) |->
        JDict(<<Item("role", JStr(<<IF (i - 1) % 2 = 0 THEN "user" ELSE "assistant">>)),
                Item("content", string_messages[i]),
                Item("timestamp", JStr(NowText))>>)]

SessionMetadata(session_id) ==
    IF session_id # "" THEN <<"session_id", session_id>> ELSE NoMetadata

\* ingest_to_recall from message i on: msg.get fails on a message that is
\* not an object, after the messages before it were inserted. Messages
\* carry no keys besides role, content and timestamp here; every timestamp
\* of one load is the load's clock reading now.
RECURSIVE IngestFrom(_, _, _, _, _)
IngestFrom(store, messages, session_id, now, i) ==
    IF i > Len(messages) THEN [raised |-> FALSE, store |-> store]
    ELSE LET msg == messages[i]
         IN  IF ~IsDict(msg) THEN [raised |-> TRUE, store |-> store]
             ELSE LET role == IF HasKey(msg, "role")
                              THEN ValueOf(msg, "role").text[1] ELSE "user"
                      content == IF HasKey(msg, "content")
                                 THEN ValueOf(msg, "content").text ELSE << >>
                  IN  IngestFrom(insert_message_at(store, role, content, now,
                                                   SessionMetadata(session_id)),
                                 messages, session_id, now, i + 1)

ingest_to_recall(store, messages, session_id, now) ==
    IngestFrom(store, messages, session_id, now, 1)

\* _ingest_sessions_batch in mode recall, sessions = <<[key, value], ...>>
RECURSIVE BatchFrom(_, _, _, _)
BatchFrom(store, sessions, now, i) ==
    IF i > Len(sessions) THEN [raised |-> FALSE, store |-> store]
    ELSE LET r == ingest_to_recall(store, sessions[i].value, sessions[i].key, now)
         IN  IF r.raised THEN r ELSE BatchFrom(r.store, sessions, now, i + 1)

ingest_sessions_batch(store, sessions, now) == BatchFrom(store, sessions, now, 1)

\* the sessions of one object whose values are lists
ListSessions(d) ==
    LET lists == SelectSeq(d.items, LAMBDA it : IsList(it.value))
    IN  [i \in 1..Len(lists) |-> Item(lists[i].key, lists[i].value.items)]

RECURSIVE FlattenFrom(_, _)
FlattenFrom(data, i) ==
    IF i > Len(data.items) THEN << >>
    ELSE LET content == data.items[i].value
             raw_sessions == IF HasKey(content, "conversation")
                             THEN ValueOf(content, "conversation") ELSE content
             named == ListSessions(raw_sessions)
         IN  (IF IsDict(content)
              THEN [k \in 1..Len(named) |->
                        Item(data.items[i].key \o "_" \o named[k].key, named[k].value)]
              ELSE << >>)
             \o FlattenFrom(data, i + 1)

\* _parse_json_format: a list is the session "default", an object of lists
\* is one session per key; the messages are taken as they are
parse_json_format(data) ==
    IF IsList(data) THEN <<Item("default", data.items)>>
    ELSE IF IsDict(data)
    THEN IF data.items = << >> THEN << >>
         ELSE IF IsList(data.items[1].value) THEN ListSessions(data)
         ELSE IF IsDict(data.items[1].value) THEN FlattenFrom(data, 1)
         ELSE << >>
    ELSE << >>

\* the sessions of one conversation of a nested document: a session that
\* starts with a bare string is converted
ConversationSessions(raw_sessions) ==
    LET named == ListSessions(raw_sessions)
    IN  [k \in 1..Len(named) |->
            Item(named[k].key,
                 IF named[k].value # << >> /\ named[k].value[1].kind = "str"
                 THEN convert_strings_to_messages(named[k].value)
                 ELSE named[k].value)]

\* _ingest_nested_storage from conversation i on: each conversation gets a
\* store of its own under its name
RECURSIVE NestedFrom(_, _, _)
NestedFrom(data, now, i) ==
    IF i > Len(data.items) THEN [raised |-> FALSE, stores |-> << >>]
    ELSE LET content == data.items[i].value
             rest == NestedFrom(data, now, i + 1)
         IN  IF ~IsDict(content) THEN rest
             ELSE LET raw_sessions == IF HasKey(content, "conversation")
                                      THEN ValueOf(content, "conversation") ELSE content
                  IN  IF ~IsDict(raw_sessions)
                      THEN [raised |-> TRUE, stores |-> << >>]
                      ELSE LET r == ingest_sessions_batch(
                                        EmptyStore, ConversationSessions(raw_sessions), now)
                               here == <<[name |-> data.items[i].key, store |-> r.store]>>
                           IN  IF r.raised THEN [raised |-> TRUE, stores |-> here]
                               ELSE [raised |-> rest.raised,
                                     stores |-> here \o rest.stores]

ingest_nested_storage(data, now) == NestedFrom(data, now, 1)

is_nested_storage(data) ==
    /\ IsDict(data)
    /\ data.items # << >>
    /\ LET sample_val == data.items[1].value
       IN  /\ IsDict(sample_val)
           /\ \/ HasKey(sample_val, "conversation")
              \/ /\ sample_val.items # << >>
                 /\ IsList(sample_val.items[1].value)

\* ingest_from_json_file(json_path, mode="recall") on the parsed document,
\* the ingester's own store new: what is raised and what each store holds
ingest_from_json_file(data, now) ==
    IF is_nested_storage(data)
    THEN LET r == ingest_nested_storage(data, now)
         IN  [raised |-> r.raised,
              stores |-> <<[name |-> "global", store |-> EmptyStore]>> \o r.stores]
    ELSE LET r == ingest_sessions_batch(EmptyStore, parse_json_format(data), now)
         IN  [raised |-> r.raised,
              stores |-> <<[name |-> "global", store |-> r.store]>>]

(************************** dataset converters ****************************)
\* A datetime, as far as the converters use it: the fields above the second
\* (here the minute count) and the second. parsed dates carry no seconds.
SecondsPerMinute == 60

Moment(minute, second) == [minute |-> minute, second |-> second]

\* datetime.replace(second=...): every other field kept
replace_second(t, second) == [t EXCEPT !.second = second]

\* strftime("%Y-%m-%d %H:%M:%S"): fixed-width fields, the most significant
\* first; the text is what a store compares
strftime(t) == <<t.minute, t.second>>

\* comparison of two such texts, as ORDER BY timestamp compares them
TextBefore(a, b) ==
    \E i \in 1..Min(Len(a), Len(b)) :
        /\ a[i] < b[i]
        /\ \A j \in 1..(i - 1) : a[j] = b[j]

\* parse_custom_date: the datetime of a date that fits the format, else None
parse_custom_date(date_str) ==
    IF date_str.parses THEN Moment(date_str.minute, 0) ELSE None

\* parse_longmemeval_date: the datetime of a date that fits, else now()
parse_longmemeval_date(date_str, now) ==
    IF date_str.parses THEN Moment(date_str.minute, 0) ELSE now

\* the timestamp of the message at index idx (from 0) of a session
message_timestamp(base_timestamp, idx) ==
    replace_second(base_timestamp, (base_timestamp.second + idx) % SecondsPerMinute)

\* convert_locomo, one session: the messages of speaker_a are the user's
convert_locomo(messages_raw, speaker_a, date_time_str, now) ==
    LET parsed == IF date_time_str.given THEN parse_custom_date(date_time_str) ELSE None
        base_timestamp == IF parsed # None THEN parsed ELSE now
    IN  [i \in 1..Len(messages_raw) |->
            [role |-> IF messages_raw[i].speaker = speaker_a THEN "user" ELSE "assistant",
             content |-> messages_raw[i].text,
             timestamp |-> strftime(message_timestamp(base_timestamp, i - 1))]]

\* convert_longmemeval, one session with its date
convert_longmemeval(session_msgs_raw, date_str, now) ==
    LET base_timestamp == parse_longmemeval_date(date_str, now)
    IN  [i \in 1..Len(session_msgs_raw) |->
            [role |-> session_msgs_raw[i].role,
             content |-> session_msgs_raw[i].content,
             timestamp |-> strftime(message_timestamp(base_timestamp, i - 1))]]

(**************************** QueueManager ********************************)
IsPressureWarning(m) ==
    m.role = "system" /\ Contains(m.content, "Memory pressure")

\* mutants: the floor of 1 forgotten; the summary slot counted
num_to_evict_no_floor(q) == (Len(q) - 1) \div 3
num_to_evict_counts_summary(q) == Max(1, Len(q) \div 3)

num_to_evict(q) == Max(1, (Len(q) - 1) \div 3)

RECURSIVE format_messages_for_summary(_)
format_messages_for_summary(messages) ==
    IF messages = << >> THEN << >>
    ELSE LET m == Head(messages)
             line == <<Upper(m.role), ":">> \o m.content
         IN  IF Tail(messages) = << >> THEN line
             ELSE line \o <<"\n">> \o format_messages_for_summary(Tail(messages))

\* mutant: the evicted text kept whole
Truncate_none(text) == text

\* evicted_text[:500]
Truncate(text) ==
    SubSeq(text, 1, Min(Len(text), SummaryCharLimit \div CharsPerToken))

FallbackSummary(current_summary, evicted_text) ==
    current_summary \o RecentActivityText \o Truncate(evicted_text) \o EllipsisText

\* reply: what the summarization callback does when it is called
generate_summary(cfg, current_summary, evicted_text, reply) ==
    IF cfg.summarize_func
    THEN IF reply.raises
         THEN FallbackSummary(current_summary, evicted_text)
         ELSE reply.text
    ELSE FallbackSummary(current_summary, evicted_text)

\* mutant: the evicted messages persisted newest first
RECURSIVE PersistAll_reversed(_, _)
PersistAll_reversed(store, messages) ==
    IF messages = << >> THEN store
    ELSE LET m == messages[Len(messages)]
         IN  PersistAll_reversed(insert_message(store, m.role, m.content, m.metadata),
                                 SubSeq(messages, 1, Len(messages) - 1))

RECURSIVE PersistAll(_, _)
PersistAll(store, messages) ==
    IF messages = << >> THEN store
    ELSE PersistAll(insert_message(store, Head(messages).role,
                                   Head(messages).content, Head(messages).metadata),
                    Tail(messages))

\* mutant: the remaining slice starts one slot early (queue[num_to_evict:])
evict_messages_keeps_evicted(q, store, cfg, reply) ==
    IF Len(q) <= 1
    THEN [queue |-> q, store |-> store]
    ELSE LET n == num_to_evict(q)
             evicted_messages == SubSeq(q, 2, n + 1)
             new_summary == generate_summary(cfg, q[1].content,
                                format_messages_for_summary(evicted_messages), reply)
         IN  [queue |-> <<Message("system", new_summary, NoMetadata)>>
                            \o SubSeq(q, n + 1, Len(q)),
              store |-> PersistAll(store, evicted_messages)]

evict_messages(q, store, cfg, reply) ==
    IF Len(q) <= 1
    THEN [queue |-> q, store |-> store]
    ELSE LET n == num_to_evict(q)
             current_summary == q[1].content
             evicted_messages == SubSeq(q, 2, n + 1)
             evicted_text == format_messages_for_summary(evicted_messages)
             new_summary == generate_summary(cfg, current_summary, evicted_text, reply)
         IN  [queue |-> <<Message("system", new_summary, NoMetadata)>>
                            \o SubSeq(q, n + 2, Len(q)),
              store |-> PersistAll(store, evicted_messages)]

\* mutant: >= where the code has >
AboveWarning_inclusive(cfg, tokens) == tokens * 100 >= cfg.max_tokens * cfg.warning_pct

AboveWarning(cfg, tokens) == tokens * 100 > cfg.max_tokens * cfg.warning_pct
AtFlush(cfg, tokens) == tokens * 100 >= cfg.max_tokens * cfg.flush_pct

\* mutant: eviction repeated while the queue is still at the flush threshold
check_memory_pressure_until_below(q, store, cfg, reply) ==
    LET current_tokens == count_message_tokens(q)
    IN  IF AboveWarning(cfg, current_tokens)
           /\ ~(q # << >> /\ IsPressureWarning(q[Len(q)]))
        THEN [queue |-> Append(q, WarningMsg), store |-> store,
              ret |-> TRUE, evicted |-> FALSE]
        ELSE IF AtFlush(cfg, current_tokens)
        THEN LET e == evict_messages(q, store, cfg, reply)
                 again == IF AtFlush(cfg, count_message_tokens(e.queue))
                          THEN evict_messages(e.queue, e.store, cfg, reply)
                          ELSE e
             IN  [queue |-> again.queue, store |-> again.store,
                  ret |-> FALSE, evicted |-> Len(q) > 1]
        ELSE [queue |-> q, store |-> store, ret |-> FALSE, evicted |-> FALSE]

check_memory_pressure(q, store, cfg, reply) ==
    LET current_tokens == count_message_tokens(q)
    IN  IF AboveWarning(cfg, current_tokens)
           /\ ~(q # << >> /\ IsPressureWarning(q[Len(q)]))
        THEN [queue |-> Append(q, WarningMsg), store |-> store,
              ret |-> TRUE, evicted |-> FALSE]
        ELSE IF AtFlush(cfg, current_tokens)
        THEN LET e == evict_messages(q, store, cfg, reply)
             IN  [queue |-> e.queue, store |-> e.store,
                  ret |-> FALSE, evicted |-> Len(q) > 1]
        ELSE [queue |-> q, store |-> store, ret |-> FALSE, evicted |-> FALSE]

add_message(q, store, cfg, msg, reply) ==
    check_memory_pressure(Append(q, msg), store, cfg, reply)

get_queue_size(q) == count_message_tokens(q)

\* mutant: the kept slot reset to the empty-state summary
clear_queue_resets(q, keep_summary) == <<EmptySummary>>

\* mutant: clearing without keeping the summary leaves no slot at all
clear_queue_empty(q, keep_summary) ==
    IF keep_summary /\ q # << >> THEN <<q[1]>> ELSE << >>

clear_queue(q, keep_summary) ==
    IF keep_summary /\ q # << >> THEN <<q[1]>> ELSE <<EmptySummary>>

set_summary(q, summary) ==
    IF q # << >>
    THEN [q EXCEPT ![1] = Message("system", summary, NoMetadata)]
    ELSE <<Message("system", summary, NoMetadata)>>

get_summary(q) == IF q # << >> THEN q[1].content ELSE << >>

(************************* inputs of the model ****************************)
ShortText == <<"hi">>
LongText == <<"a", "longer", "message", "of", "six", "tokens">>
PressureText == <<"Memory pressure">>
MetaText == <<"{'session': 's1'}">>
ShortSummary == <<"summary">>
LongSummary == <<"a", "summary", "that", "is", "longer", "than", "what", "was",
                 "evicted", "from", "the", "queue", "by", "far">>

AddInputs ==
    { Message("user", ShortText, NoMetadata),
      Message("assistant", LongText, NoMetadata),
      Message("function", ShortText, MetaText),
      Message("system", PressureText, NoMetadata),
      Message("system", ShortText, NoMetadata),
      Message("user", PressureText, NoMetadata) }

SummarizerReplies ==
    { [raises |-> TRUE, text |-> << >>],
      [raises |-> FALSE, text |-> ShortSummary],
      [raises |-> FALSE, text |-> LongSummary] }

Configs ==
    { [max_tokens |-> MaxTokens, warning_pct |-> DefaultWarningPct,
       flush_pct |-> DefaultFlushPct, summarize_func |-> TRUE],
      [max_tokens |-> MaxTokens, warning_pct |-> 50,
       flush_pct |-> 100, summarize_func |-> TRUE],
      [max_tokens |-> MaxTokens, warning_pct |-> 50,
       flush_pct |-> 100, summarize_func |-> FALSE] }

NoCall == [op |-> "init", msg |-> EmptySummary, ret |-> FALSE, evicted |-> FALSE,
           reply |-> [raises |-> TRUE, text |-> << >>],
           pre_queue |-> << >>, pre_store |-> EmptyStore]

\* One add_message call on the queue-manager state st = [queue, recall, entered,
\* last], with the history variables brought up to date.
Add(st, cfg, msg, reply) ==
    LET r == add_message(st.queue, st.recall, cfg, msg, reply)
    IN  [queue |-> r.queue,
         recall |-> r.store,
         entered |-> IF r.ret THEN st.entered \o <<msg, WarningMsg>>
                              ELSE Append(st.entered, msg),
         last |-> [op |-> "add", msg |-> msg, ret |-> r.ret,
                   evicted |-> r.evicted,
                   reply |-> IF r.evicted THEN reply ELSE NoCall.reply,
                   pre_queue |-> st.queue, pre_store |-> st.recall]]

QState == [queue |-> queue, recall |-> recall, entered |-> entered, last |-> last]

(**************************** CoreMemory **********************************)
InitialSections ==
    << [name |-> "persona",
        content |-> <<"I am MemGPT, an intelligent memory management system.">>],
       [name |-> "human",
        content |-> <<"No information about the user yet.">>] >>

HasSection(sections, section) ==
    \E i \in 1..Len(sections) : sections[i].name = section

\* mutant: appending to a section that does not exist creates it
CoreMemory_append_creates(sections, section, content) ==
    IF ~HasSection(sections, section)
    THEN [ok |-> TRUE,
          sections |-> Append(sections, [name |-> section, content |-> content])]
    ELSE [ok |-> TRUE,
          sections |-> [i \in 1..Len(sections) |->
                           IF sections[i].name = section
                           THEN [sections[i] EXCEPT !.content = @ \o <<"\n">> \o content]
                           ELSE sections[i]]]

\* mutant: the text appended without the newline
CoreMemory_append_no_newline(sections, section, content) ==
    IF ~HasSection(sections, section)
    THEN [ok |-> FALSE, sections |-> sections]
    ELSE [ok |-> TRUE,
          sections |-> [i \in 1..Len(sections) |->
                           IF sections[i].name = section
                           THEN [sections[i] EXCEPT !.content = @ \o content]
                           ELSE sections[i]]]

CoreMemory_append(sections, section, content) ==
    IF ~HasSection(sections, section)
    THEN [ok |-> FALSE, sections |-> sections]
    ELSE [ok |-> TRUE,
          sections |-> [i \in 1..Len(sections) |->
                           IF sections[i].name = section
                           THEN [sections[i] EXCEPT !.content = @ \o <<"\n">> \o content]
                           ELSE sections[i]]]

SectionText(sections, section) ==
    sections[CHOOSE i \in 1..Len(sections) : sections[i].name = section].content

\* old_content in current: pat occurs in text at index i
Occurs(text, pat, i) ==
    /\ i + Len(pat) - 1 <= Len(text)
    /\ SubSeq(text, i, i + Len(pat) - 1) = pat

\* the index of the first occurrence of pat in text, 0 when there is none
Find(text, pat) ==
    IF \E i \in 1..(Len(text) + 1) : Occurs(text, pat, i)
    THEN CHOOSE i \in 1..(Len(text) + 1) :
             /\ Occurs(text, pat, i)
             /\ \A j \in 1..(i - 1) : ~Occurs(text, pat, j)
    ELSE 0

\* mutant: every occurrence replaced, as by current.replace(old, new)
RECURSIVE ReplaceFirst_all(_, _, _)
ReplaceFirst_all(current, old_content, new_content) ==
    LET i == Find(current, old_content)
    IN  IF i = 0 \/ old_content = << >> THEN current
        ELSE SubSeq(current, 1, i - 1) \o new_content
                 \o ReplaceFirst_all(SubSeq(current, i + Len(old_content), Len(current)),
                                     old_content, new_content)

\* current.replace(old_content, new_content, 1)
ReplaceFirst(current, old_content, new_content) ==
    LET i == Find(current, old_content)
    IN  SubSeq(current, 1, i - 1) \o new_content
            \o SubSeq(current, i + Len(old_content), Len(current))

CoreMemory_replace(sections, section, old_content, new_content) ==
    IF ~HasSection(sections, section)
    THEN [ok |-> FALSE, sections |-> sections]
    ELSE IF Find(SectionText(sections, section), old_content) = 0
    THEN [ok |-> FALSE, sections |-> sections]
    ELSE [ok |-> TRUE,
          sections |-> [i \in 1..Len(sections) |->
                           IF sections[i].name = section
                           THEN [sections[i] EXCEPT
                                    !.content = ReplaceFirst(@, old_content, new_content)]
                           ELSE sections[i]]]

\* self.sections.get(section)
get_section(sections, section) ==
    IF HasSection(sections, section) THEN SectionText(sections, section) ELSE None

\* mutant: the sections rendered last to first
RECURSIVE SectionLines_reversed(_)
SectionLines_reversed(sections) ==
    IF sections = << >> THEN << >>
    ELSE SectionLines_reversed(Tail(sections))
             \o <<"\n", "\n", "[", Upper(Head(sections).name), "]", "\n">>
             \o Head(sections).content

\* the lines each section adds to to_string, each preceded by the "\n" of the join
RECURSIVE SectionLines(_)
SectionLines(sections) ==
    IF sections = << >> THEN << >>
    ELSE <<"\n", "\n", "[", Upper(Head(sections).name), "]", "\n">>
             \o Head(sections).content \o SectionLines(Tail(sections))

CoreMemory_to_string(sections) ==
    <<"### Core Memory (Working Context) ###">> \o SectionLines(sections)
        \o <<"\n", "\n", "### End Core Memory ###", "\n">>

create_section(sections, section, initial_content) ==
    IF HasSection(sections, section)
    THEN [ok |-> FALSE, sections |-> sections]
    ELSE [ok |-> TRUE,
          sections |-> Append(sections, [name |-> section, content |-> initial_content])]

delete_section(sections, section) ==
    IF ~HasSection(sections, section)
    THEN [ok |-> FALSE, sections |-> sections]
    ELSE [ok |-> TRUE,
          sections |-> SelectSeq(sections, LAMBDA e : e.name # section)]

(************************** FunctionExecutor ******************************)
\* A dictionary (tool arguments, tool output) is a sequence of [key, value]
\* pairs in insertion order; None and the empty dictionary are << >>.  A value
\* is the text json.dumps gives it; a pair whose value is not a string carries
\* its Python type, and a JSON value that is not an object at all (a list, a
\* string, a number, null) is the single pair NotAMapping.
ArgType(pair) == IF "type" \in DOMAIN pair THEN pair.type ELSE "str"
NotAMapping == <<[key |-> "", value |-> <<"[1, 2]">>, type |-> "list"]>>
IsMapping(d) == d # NotAMapping
Keys(d) == {d[i].key : i \in 1..Len(d)}
Get(d, key, default) ==
    IF key \in Keys(d)
    THEN d[CHOOSE i \in 1..Len(d) : d[i].key = key].value
    ELSE default

RECURSIVE ItemsText(_)
ItemsText(d) ==
    IF d = << >> THEN << >>
    ELSE <<Head(d).key, ":">> \o Head(d).value \o ItemsText(Tail(d))

\* str(arguments), json.dumps(output)
DictText(d) == <<"{">> \o ItemsText(d) \o <<"}">>

function_map ==
    {"send_message", "core_memory_append", "core_memory_replace",
     "archival_memory_insert", "archival_memory_search", "conversation_search"}

\* handler(**arguments) raises TypeError unless the keywords fit the signature
Required(name) ==
    CASE name = "send_message" -> {"content"}
      [] name = "core_memory_append" -> {"section", "content"}
      [] name = "core_memory_replace" -> {"section", "old_content", "new_content"}
      [] name = "archival_memory_insert" -> {"content"}
      [] OTHER -> {"query"}

Optional(name) ==
    IF name \in {"archival_memory_search", "conversation_search"} THEN {"page"} ELSE {}

ArgumentsFit(name, arguments) ==
    /\ IsMapping(arguments)
    /\ Required(name) \subseteq Keys(arguments)
    /\ Keys(arguments) \subseteq Required(name) \cup Optional(name)
    /\ Cardinality(Keys(arguments)) = Len(arguments)

send_message(arguments) ==
    << [key |-> "status", value |-> <<"message_sent">>],
       [key |-> "content", value |-> Get(arguments, "content", None)] >>

Success(name, output, sections) ==
    [status |-> "success",
     message |-> <<"Function ", name, " executed successfully">>,
     output |-> output, sections |-> sections]

Failure(message, sections) ==
    [status |-> "error", message |-> message, output |-> None, sections |-> sections]

core_memory_append(arguments, sections) ==
    LET section == Get(arguments, "section", None)
        r == CoreMemory_append(sections, section[1], Get(arguments, "content", None))
    IN  IF r.ok
        THEN Success("core_memory_append",
                     << [key |-> "status", value |-> <<"success">>],
                        [key |-> "message", value |-> <<"Appended to ">> \o section],
                        [key |-> "section", value |-> section] >>,
                     r.sections)
        ELSE Failure(<<"Error executing ", "core_memory_append", ": ", "Section '">>
                         \o section \o <<"' does not exist">>,
                     sections)

\* the type of the value passed for a parameter
TypeOf(arguments, key) ==
    ArgType(arguments[CHOOSE i \in 1..Len(arguments) : arguments[i].key = key])

\* old_content not in current, and current.replace(old_content, new_content, 1),
\* raise TypeError on an operand that is not a string
core_memory_replace(arguments, sections) ==
    LET section == Get(arguments, "section", None)
        r == CoreMemory_replace(sections, section[1],
                                Get(arguments, "old_content", None),
                                Get(arguments, "new_content", None))
    IN  IF HasSection(sections, section[1])
           /\ (TypeOf(arguments, "old_content") # "str"
                  \/ (r.ok /\ TypeOf(arguments, "new_content") # "str"))
        THEN Failure(<<"Invalid arguments for ", "core_memory_replace", ": ", "TypeError">>,
                     sections)
        ELSE IF r.ok
        THEN Success("core_memory_replace",
                     << [key |-> "status", value |-> <<"success">>],
                        [key |-> "message", value |-> <<"Replaced content in ">> \o section],
                        [key |-> "section", value |-> section] >>,
                     r.sections)
        ELSE Failure(<<"Error executing ", "core_memory_replace", ": ",
                       "Could not find old_content in section '">>
                         \o section \o <<"'">>,
                     sections)

\* the tools whose handler calls the recall store or the archival store
StorageBacked ==
    {"archival_memory_insert", "archival_memory_search", "conversation_search"}

\* the handler reaches its store: the name is known and the arguments fit
CallsStorage(function_name, arguments) ==
    /\ function_name \in StorageBacked
    /\ ArgumentsFit(function_name, arguments)

\* execute(function_name, arguments) on the working context `sections`:
\* (status, message, output) and the working context afterwards; storage_up
\* tells whether the backing store answers or raises during this call
execute(function_name, arguments, sections, storage_up) ==
    IF function_name \notin function_map
    THEN Failure(<<"Unknown function: ", function_name>>, sections)
    ELSE IF ~ArgumentsFit(function_name, arguments)
    THEN Failure(<<"Invalid arguments for ", function_name, ": ", "TypeError">>, sections)
    ELSE CASE function_name = "send_message" ->
                  Success(function_name, send_message(arguments), sections)
           [] function_name = "core_memory_append" ->
                  core_memory_append(arguments, sections)
           [] function_name = "core_memory_replace" ->
                  core_memory_replace(arguments, sections)
           [] OTHER ->
                  IF storage_up
                  THEN Success(function_name,
                               <<[key |-> "status", value |-> <<"success">>]>>, sections)
                  ELSE Failure(<<"Error executing ", function_name, ": ", "StorageError">>,
                               sections)

\* the rows _conversation_search reports for a page
conversation_search(store, query, page, page_size, ties) ==
    search_messages(store, query, page_size, page * page_size, ties)

\* _archival_memory_search as execute runs it: an exception of the store
\* becomes the error status
archival_memory_search(collection, query, page, page_size, ties, on_zero) ==
    LET r == ChromaArchivalStorage_search(collection, query, page_size,
                                          page * page_size, ties, on_zero)
    IN  [status |-> IF r.raised THEN "error" ELSE "success",
         results_count |-> Len(r.documents),
         results |-> [i \in 1..Len(r.documents) |->
                        [content |-> r.documents[i].content,
                         similarity |-> r.documents[i].similarity]],
         documents |-> r.documents]

\* mutant: the comparison inverted
should_continue_heartbeat_inverted(function_name) == function_name = "send_message"

should_continue_heartbeat(function_name) == function_name # "send_message"

format_function_result(function_name, status, message, output) ==
    <<"Function: ", function_name, "\n", "Status: ", status, "\n", "Message: ">>
        \o message \o <<"\n">>
        \o (IF output # << >> THEN <<"Output: ">> \o DictText(output) ELSE << >>)

(****************************** MemGPTAgent *******************************)
FunctionCallMessage(function_name, arguments) ==
    Message("assistant",
            <<"[Function Call: ", function_name, "(">> \o DictText(arguments) \o <<")]">>,
            NoMetadata)

\* mutant: the tool result enqueued with the role of the call
FunctionResultMessage_as_assistant(result_text) ==
    Message("assistant", result_text, NoMetadata)

FunctionResultMessage(result_text) == Message("function", result_text, NoMetadata)

\* mutant: the inner monologue enqueued with the wrong role
ThoughtMessage_as_system(content) == Message("system", content, NoMetadata)

ThoughtMessage(content) == Message("assistant", content, NoMetadata)

ErrorText(e) == <<"LLM API Error: ">> \o e
\* mutant: the error enqueued as an assistant message
ErrorMessage_as_assistant(error_msg) == Message("assistant", error_msg, NoMetadata)

ErrorMessage(error_msg) == Message("system", error_msg, NoMetadata)

UserMessage(user_message) == Message("user", user_message, NoMetadata)

NoOutcome == [status |-> "none", message |-> << >>, thought |-> << >>,
              iterations |-> 0, keys |-> {}]

ReturnSuccess(final_response, n) ==
    [status |-> "success", message |-> final_response, thought |-> << >>,
     iterations |-> n, keys |-> {"status", "message", "function", "iterations"}]

\* mutant: the thought left out of the outcome
ReturnNoMessage_without_thought(content, n) ==
    [status |-> "no_message",
     message |-> <<"Agent finished without sending a message">>,
     thought |-> << >>,
     iterations |-> n, keys |-> {"status", "message", "iterations"}]

ReturnNoMessage(content, n) ==
    [status |-> "no_message",
     message |-> <<"Agent finished without sending a message">>,
     thought |-> content,
     iterations |-> n, keys |-> {"status", "message", "thought", "iterations"}]

\* mutant: the iteration count left at its initial value
ReturnMaxIterations_zero(n) ==
    [status |-> "max_iterations",
     message |-> <<"Maximum iterations reached in heartbeat loop">>,
     thought |-> << >>,
     iterations |-> 0, keys |-> {"status", "message", "iterations"}]

ReturnMaxIterations(n) ==
    [status |-> "max_iterations",
     message |-> <<"Maximum iterations reached in heartbeat loop">>,
     thought |-> << >>,
     iterations |-> n, keys |-> {"status", "message", "iterations"}]

ReturnError(error_msg) ==
    [status |-> "error", message |-> error_msg, thought |-> << >>,
     iterations |-> 0, keys |-> {"status", "message", "response"}]

\* what one heartbeat iteration did: the LLM's answer (kind "fail", "tool" or
\* "prose"), the tool call and its result, and the state the iteration started from
NoDispatch ==
    [kind |-> "none", name |-> "", arguments |-> None, status |-> "",
     message |-> << >>, content |-> << >>, finish_reason |-> "",
     storage_failed |-> FALSE, pre_queue |-> << >>, pre_sections |-> << >>]

TraceEntry(d) == [kind |-> d.kind, name |-> d.name, status |-> d.status]

\* _build_context(): the system prompt with the working context rendered
\* under it, then a snapshot of the queue
SystemPromptText == <<"You are MemGPT, an intelligent system ...">>

MemGPTAgent_build_context(sections, q) ==
    <<Message("system",
              SystemPromptText \o <<"\n\n">> \o CoreMemory_to_string(sections),
              NoMetadata)>> \o q

\* get_core_memory(): a copy of the sections of the agent's CoreMemory
MemGPTAgent_get_core_memory(sections) == sections

\* mutant: reset writes the queued messages to the recall store before it
\* drops them
MemGPTAgent_reset_persists(sections, q, store) ==
    [core_memory |-> InitialSections,
     queue |-> clear_queue(q, TRUE),
     recall |-> PersistAll(store, Tail(q))]

\* reset(): self.core_memory is bound to a new CoreMemory(), the queue is
\* cleared keeping its summary; no store is touched
MemGPTAgent_reset(sections, q, store) ==
    [core_memory |-> InitialSections,
     queue |-> clear_queue(q, TRUE),
     recall |-> store]

(**************** what the LLM and the user may answer ********************)
HelloText == <<"hello">>
FactText == <<"name=Alice">>
ThoughtText == <<"thinking">>
TimeoutText == <<"timeout">>

SendHello ==
    [name |-> "send_message",
     arguments |-> <<[key |-> "content", value |-> HelloText]>>]
SendNothing == [name |-> "send_message", arguments |-> << >>]
AppendHuman ==
    [name |-> "core_memory_append",
     arguments |-> << [key |-> "section", value |-> <<"human">>],
                      [key |-> "content", value |-> FactText] >>]
AppendNope ==
    [name |-> "core_memory_append",
     arguments |-> << [key |-> "section", value |-> <<"nope">>],
                      [key |-> "content", value |-> FactText] >>]

ToolCalls == {SendHello, SendNothing, AppendHuman, AppendNope}

\* tool calls that break the contract of a tool, or whose handler calls a
\* backing store, and a successful replace
ReplaceCall(section, old_content) ==
    [name |-> "core_memory_replace",
     arguments |-> << [key |-> "section", value |-> <<section>>],
                      [key |-> "old_content", value |-> old_content],
                      [key |-> "new_content", value |-> FactText] >>]

ProbeCalls ==
    { [name |-> "no_such_tool", arguments |-> << >>],
      AppendNope,
      [name |-> "core_memory_append",
       arguments |-> <<[key |-> "section", value |-> <<"human">>]>>],
      ReplaceCall("nope", FactText),
      ReplaceCall("human", HelloText),
      ReplaceCall("human", <<"No information about the user yet.">>),
      [name |-> "archival_memory_search", arguments |-> << >>],
      [name |-> "conversation_search",
       arguments |-> <<[key |-> "query", value |-> HelloText]>>] }

\* message.content and choice.finish_reason of a response without a tool call
ProseReplies ==
    { [content |-> ThoughtText, finish_reason |-> "stop"],
      [content |-> ThoughtText, finish_reason |-> "length"],
      [content |-> None, finish_reason |-> "stop"] }

\* a user message as long as the whole context window
WindowText == [i \in 1..AgentMaxTokens |-> "word"]

UserInputs == {None, ShortText, WindowText}

\* what the summarization completion call does: it raises or it answers
SummaryCompletions ==
    { [raises |-> TRUE, text |-> << >>],
      [raises |-> FALSE, text |-> ShortSummary] }

\* MemGPTAgent._generate_summary never raises: it returns the LLM's text or a
\* fixed text when the LLM call fails
MemGPTAgent_generate_summary(completion) ==
    IF completion.raises
    THEN [raises |-> FALSE, text |-> <<"Summary generation failed.">>]
    ELSE [raises |-> FALSE, text |-> completion.text]

AgentSummaryReplies ==
    { MemGPTAgent_generate_summary(completion) : completion \in SummaryCompletions }

AgentConfig ==
    [max_tokens |-> AgentMaxTokens, warning_pct |-> DefaultWarningPct,
     flush_pct |-> DefaultFlushPct, summarize_func |-> TRUE]

\* a working context built from a caller's dictionary
CustomSections ==
    << [name |-> "notes", content |-> <<"a", "b", "a">>],
       [name |-> "human", content |-> <<"b">>] >>

SectionNames == {"human", "notes"}
AppendTexts == {<<"a">>, <<"a", "b">>}
OldTexts == {<<"a">>, <<"b", "a">>, << >>, <<"zz">>}
NewTexts == {<<"c">>, << >>}
InitialTexts == {<< >>, <<"a">>}

NoApplied ==
    [op |-> "none", section |-> "", content |-> << >>, old_content |-> << >>,
     new_content |-> << >>, ok |-> FALSE, result |-> << >>, pre_sections |-> << >>,
     prev_op |-> "none", prev_result |-> << >>]

\* calls of every shape: fitting, a field missing, a field too many, a field
\* of the wrong type, arguments that are no mapping, a name that is no tool
WithArgs(name, arguments) == [name |-> name, arguments |-> arguments]
Number == [key |-> "content", value |-> <<"123">>, type |-> "int"]

ExecCalls ==
    { SendHello, AppendHuman, AppendNope,
      ReplaceCall("human", <<"No information about the user yet.">>),
      WithArgs("conversation_search", <<[key |-> "query", value |-> HelloText]>>),
      WithArgs("no_such_tool", << >>),
      WithArgs("no_such_tool", NotAMapping),
      WithArgs("send_message", << >>),
      WithArgs("send_message", SendHello.arguments
                                   \o <<[key |-> "extra", value |-> HelloText]>>),
      WithArgs("send_message", NotAMapping),
      WithArgs("send_message", <<Number>>),
      WithArgs("core_memory_append",
               <<[key |-> "section", value |-> <<"human">>], Number>>),
      WithArgs("core_memory_replace",
               << [key |-> "section", value |-> <<"human">>],
                  [key |-> "old_content", value |-> <<"123">>, type |-> "int"],
                  [key |-> "new_content", value |-> FactText] >>),
      WithArgs("archival_memory_search", NotAMapping) }

NoExecuted ==
    [op |-> "none", name |-> "", arguments |-> << >>, storage_up |-> TRUE,
     status |-> "none", message |-> << >>, output |-> None, pre_sections |-> << >>]

\* what is stored and what is searched for
StoreTexts == {<<"hello", "there">>, <<"bye">>}
StoreQueries == {<<"hello">>, << >>, <<"there", "hello">>}
Timestamps == {1, 2}

NoStoreOp ==
    [op |-> "none", query |-> << >>, limit |-> 0, offset |-> 0, ties |-> "",
     message_id |-> 0, ok |-> FALSE, result |-> << >>, pre_store |-> EmptyStore]

(******************************* actions **********************************)
InitQueue ==
    /\ queue = <<EmptySummary>>
    /\ recall = EmptyStore
    /\ entered = << >>
    /\ cleared = FALSE
    /\ last = NoCall
    /\ nops = 0

InitAgent ==
    /\ core_memory = InitialSections
    /\ pc = "Idle"
    /\ iteration = 0
    /\ outcome = NoOutcome
    /\ dispatch = NoDispatch
    /\ llm_calls = 0
    /\ detours = 0
    /\ turns = 0
    /\ trace = << >>
    /\ applied = NoApplied
    /\ issued = << >>
    /\ archival_storage = EmptyCollection
    /\ executor_memory = SharedMemory

Init ==
    /\ config \in Configs
    /\ InitQueue
    /\ InitAgent

\* reply is consulted by an eviction only; other adds never call the callback
AddMessage ==
    \E msg \in AddInputs, reply \in SummarizerReplies :
        LET st == Add(QState, config, msg, reply)
        IN  /\ nops < MaxOps
            /\ queue' = st.queue
            /\ recall' = st.recall
            /\ entered' = st.entered
            /\ last' = st.last
            /\ nops' = nops + 1
            /\ UNCHANGED <<config, cleared>>
            /\ UNCHANGED <<avars, pvars>>

ClearQueue ==
    \E keep_summary \in BOOLEAN :
        /\ nops < MaxOps
        /\ queue' = clear_queue(queue, keep_summary)
        /\ cleared' = TRUE
        /\ last' = [NoCall EXCEPT !.op = IF keep_summary THEN "clear_keep" ELSE "clear",
                                  !.pre_queue = queue, !.pre_store = recall]
        /\ nops' = nops + 1
        /\ UNCHANGED <<config, recall, entered>>
        /\ UNCHANGED <<avars, pvars>>

SetSummary ==
    \E summary \in {ShortSummary, LongSummary} :
        /\ nops < MaxOps
        /\ queue' = set_summary(queue, summary)
        /\ last' = [NoCall EXCEPT !.op = "set_summary", !.msg.content = summary,
                                  !.pre_queue = queue, !.pre_store = recall]
        /\ nops' = nops + 1
        /\ UNCHANGED <<config, recall, entered, cleared>>
        /\ UNCHANGED <<avars, pvars>>

Next == AddMessage \/ ClearQueue \/ SetSummary

Spec == Init /\ [][Next]_vars

(************ the queue manager over a recall store that can fail **********)
\* _evict_messages when the j-th insert_message of its loop raises: the inserts
\* before it are committed, the queue assignment after the loop is not reached
evict_messages_raising(q, store, j) ==
    [queue |-> q, store |-> PersistAll(store, SubSeq(q, 2, j))]

\* add_message in which the eviction's j-th insert raises; the exception
\* reaches the caller of add_message
AddMessageInsertRaises ==
    \E msg \in AddInputs, reply \in SummarizerReplies :
        LET q == Append(queue, msg)
            r == check_memory_pressure(q, recall, config, reply)
        IN  /\ nops < MaxOps
            /\ r.evicted
            /\ \E j \in 1..num_to_evict(q) :
                   LET e == evict_messages_raising(q, recall, j)
                   IN  /\ queue' = e.queue
                       /\ recall' = e.store
                       /\ last' = [op |-> "add_raised", msg |-> msg, ret |-> FALSE,
                                   evicted |-> FALSE, reply |-> reply,
                                   pre_queue |-> queue, pre_store |-> recall]
            /\ entered' = Append(entered, msg)
            /\ nops' = nops + 1
            /\ UNCHANGED <<config, cleared>>
            /\ UNCHANGED <<avars, pvars>>

StoreFailNext == AddMessage \/ AddMessageInsertRaises \/ ClearQueue \/ SetSummary

StoreFailSpec == Init /\ [][StoreFailNext]_vars

(***************************** agent actions ******************************)
SetQueueState(st) ==
    /\ queue' = st.queue
    /\ recall' = st.recall
    /\ entered' = st.entered
    /\ last' = st.last
    /\ UNCHANGED <<config, cleared, nops>>
    /\ UNCHANGED pvars

\* step(user_message), up to the heartbeat loop; at most `limit` calls of step
BeginStep(inputs, limit) ==
    \E user_message \in inputs, reply \in AgentSummaryReplies :
        /\ pc \in {"Idle", "Returned"}
        /\ turns < limit
        /\ SetQueueState(IF user_message # None
                         THEN Add(QState, config, UserMessage(user_message), reply)
                         ELSE QState)
        /\ pc' = "Loop"
        /\ iteration' = 0
        /\ outcome' = NoOutcome
        /\ dispatch' = NoDispatch
        /\ llm_calls' = 0
        /\ detours' = 0
        /\ turns' = turns + 1
        /\ trace' = << >>
        /\ UNCHANGED core_memory

StepBegin == BeginStep(UserInputs, 1)

\* one heartbeat iteration in which the completion call raises e, one of
\* `errors`
FailStep(errors) ==
    \E e \in errors, reply \in AgentSummaryReplies :
        LET error_msg == ErrorText(e)
            d == [NoDispatch EXCEPT !.kind = "fail", !.message = error_msg,
                                    !.pre_queue = queue, !.pre_sections = core_memory]
        IN  /\ pc = "Loop"
            /\ iteration < max_iterations
            /\ SetQueueState(Add(QState, config, ErrorMessage(error_msg), reply))
            /\ iteration' = iteration + 1
            /\ llm_calls' = llm_calls + 1
            /\ dispatch' = d
            /\ trace' = Append(trace, TraceEntry(d))
            /\ outcome' = ReturnError(error_msg)
            /\ pc' = "Returned"
            /\ UNCHANGED <<core_memory, detours, turns>>

LLMFails == FailStep({TimeoutText})

\* one heartbeat iteration in which the LLM answers with a tool call from
\* `calls` while the backing stores are in one of `conditions`; the calls not in
\* `free` that leave the turn running are counted, and at most `limit` are made
ToolCallStep(calls, conditions, free, limit) ==
    \E call \in calls, storage_up \in conditions, reply \in AgentSummaryReplies :
        LET r == execute(call.name, call.arguments, core_memory, storage_up)
            result_text == format_function_result(call.name, r.status, r.message, r.output)
            st1 == Add(QState, config, FunctionCallMessage(call.name, call.arguments), reply)
            st2 == Add(st1, config, FunctionResultMessage(result_text), reply)
            ends == (call.name = "send_message" /\ r.status = "success")
                        \/ ~should_continue_heartbeat(call.name)
            detour == ~ends /\ call \notin free
            d == [kind |-> "tool", name |-> call.name, arguments |-> call.arguments,
                  status |-> r.status, message |-> r.message,
                  content |-> Get(call.arguments, "content", None),
                  finish_reason |-> "tool_calls",
                  storage_failed |-> CallsStorage(call.name, call.arguments) /\ ~storage_up,
                  pre_queue |-> queue, pre_sections |-> core_memory]
        IN  /\ pc = "Loop"
            /\ iteration < max_iterations
            /\ detour => detours < limit
            /\ detours' = IF detour THEN detours + 1 ELSE detours
            /\ SetQueueState(st2)
            /\ core_memory' = r.sections
            /\ iteration' = iteration + 1
            /\ llm_calls' = llm_calls + 1
            /\ dispatch' = d
            /\ trace' = Append(trace, TraceEntry(d))
            /\ turns' = turns
            /\ IF call.name = "send_message" /\ r.status = "success"
               THEN /\ outcome' = ReturnSuccess(Get(r.output, "content", << >>),
                                                iteration + 1)
                    /\ pc' = "Returned"
               ELSE IF ~should_continue_heartbeat(call.name)
               THEN /\ outcome' = ReturnMaxIterations(iteration + 1)
                    /\ pc' = "Returned"
               ELSE /\ outcome' = outcome
                    /\ pc' = "Loop"

LLMToolCall == ToolCallStep(ToolCalls, {TRUE}, {AppendHuman}, MaxDetours)

\* one heartbeat iteration in which the LLM answers without a tool call; at
\* most `limit` such answers leave the turn running
ProseStep(replies, limit) ==
    \E p \in replies, reply \in AgentSummaryReplies :
        LET content == IF p.content # None THEN p.content ELSE <<"[No response]">>
            detour == p.finish_reason # "stop"
            d == [NoDispatch EXCEPT !.kind = "prose", !.content = content,
                                    !.finish_reason = p.finish_reason,
                                    !.pre_queue = queue, !.pre_sections = core_memory]
        IN  /\ pc = "Loop"
            /\ iteration < max_iterations
            /\ detour => detours < limit
            /\ detours' = IF detour THEN detours + 1 ELSE detours
            /\ SetQueueState(Add(QState, config, ThoughtMessage(content), reply))
            /\ iteration' = iteration + 1
            /\ llm_calls' = llm_calls + 1
            /\ dispatch' = d
            /\ trace' = Append(trace, TraceEntry(d))
            /\ IF p.finish_reason = "stop"
               THEN /\ outcome' = ReturnNoMessage(content, iteration + 1)
                    /\ pc' = "Returned"
               ELSE /\ outcome' = outcome
                    /\ pc' = "Loop"
            /\ UNCHANGED <<core_memory, turns>>

LLMProse == ProseStep(ProseReplies, MaxDetours)

\* the loop condition fails: the return after the loop
LoopExit ==
    /\ pc = "Loop"
    /\ ~(iteration < max_iterations)
    /\ outcome' = ReturnMaxIterations(iteration)
    /\ pc' = "Returned"
    /\ UNCHANGED <<core_memory, iteration, dispatch, llm_calls, detours, turns, trace>>
    /\ UNCHANGED <<qvars, pvars>>

AgentInit ==
    /\ config = AgentConfig
    /\ InitQueue
    /\ InitAgent

AgentNext == StepBegin \/ LLMFails \/ LLMToolCall \/ LLMProse \/ LoopExit

AgentSpec == AgentInit /\ [][AgentNext]_vars

\* step is called and, once called, runs to its return: each statement of
\* step that can execute does
LiveDispatch == ToolCallStep(ToolCalls, {TRUE}, {AppendHuman}, MaxLiveDetours)

LiveProse == ProseStep(ProseReplies, MaxLiveDetours)

LiveNext == StepBegin \/ LLMFails \/ LiveDispatch \/ LiveProse \/ LoopExit

AgentLiveSpec == AgentInit /\ [][LiveNext]_vars /\ WF_vars(LiveNext)

(*********** one turn probing the tools and their backing stores ***********)
ToolBegin == BeginStep({ShortText}, 1)

ToolDispatch ==
    ToolCallStep(ProbeCalls \cup {SendHello, SendNothing, AppendHuman},
                 BOOLEAN, {AppendHuman}, MaxProbes)

ToolNext == ToolBegin \/ ToolDispatch \/ LoopExit

ToolSpec == AgentInit /\ [][ToolNext]_vars

(************************ a session of several turns ***********************)
SessionBegin == BeginStep({ShortText}, MaxTurns)

SessionDispatch == ToolCallStep({SendHello, AppendHuman}, {TRUE}, {AppendHuman}, 0)

SessionProse == ProseStep({[content |-> ThoughtText, finish_reason |-> "stop"]}, 0)

SessionNext == SessionBegin \/ LLMFails \/ SessionDispatch \/ SessionProse \/ LoopExit

SessionSpec == AgentInit /\ [][SessionNext]_vars

(************* turns whose LLM errors quote the pressure alert *************)
\* The text of an LLM exception is arbitrary; one that holds the words
\* "Memory pressure" makes the enqueued error message pass for a warning.
EvictBegin == BeginStep({ShortText, WindowText}, MaxEvictTurns)

EvictFails == FailStep({TimeoutText, PressureText})

EvictDispatch == ToolCallStep({SendHello}, {TRUE}, {}, 0)

EvictNext == EvictBegin \/ EvictFails \/ EvictDispatch

EvictSpec == AgentInit /\ [][EvictNext]_vars

(********** turns that fill the window with the agent's own roles *********)
\* The LLM never fails here, so step enqueues user, assistant and function
\* messages only; a turn is always possible until the bound on turns, and one
\* that has begun runs on (weak fairness), as step is a plain loop.
PressureBegin == BeginStep({ShortText, LongText, WindowText}, MaxPressureTurns)

PressureDispatch == ToolCallStep({SendHello}, {TRUE}, {}, 0)

PressureProse == ProseStep({[content |-> ThoughtText, finish_reason |-> "stop"]}, 0)

PressureNext == PressureBegin \/ PressureProse \/ PressureDispatch

PressureLiveSpec == AgentInit /\ [][PressureNext]_vars /\ WF_vars(PressureNext)

(********************* the working context on its own *********************)
\* CoreMemory(sections): the default sections or the caller's
CoreInit ==
    /\ config = AgentConfig
    /\ InitQueue
    /\ core_memory \in {InitialSections, CustomSections}
    /\ pc = "Idle"
    /\ iteration = 0
    /\ outcome = NoOutcome
    /\ dispatch = NoDispatch
    /\ llm_calls = 0
    /\ detours = 0
    /\ turns = 0
    /\ trace = << >>
    /\ applied = NoApplied
    /\ issued = << >>
    /\ archival_storage = EmptyCollection
    /\ executor_memory = SharedMemory

\* what a CoreMemory call leaves behind: the sections, the call and its result
CoreApply(op, r, result) ==
    /\ nops < MaxCoreOps
    /\ nops' = nops + 1
    /\ core_memory' = r.sections
    /\ applied' = [op EXCEPT !.ok = r.ok, !.result = result,
                             !.pre_sections = core_memory,
                             !.prev_op = applied.op, !.prev_result = applied.result]
    /\ UNCHANGED <<config, queue, recall, entered, cleared, last, issued,
                   archival_storage, executor_memory>>
    /\ UNCHANGED <<pc, iteration, outcome, dispatch, llm_calls, detours, turns, trace>>

CoreAppend ==
    \E section \in SectionNames, content \in AppendTexts :
        CoreApply([NoApplied EXCEPT !.op = "append", !.section = section,
                                    !.content = content],
                  CoreMemory_append(core_memory, section, content), << >>)

CoreReplace ==
    \E section \in SectionNames, old_content \in OldTexts, new_content \in NewTexts :
        CoreApply([NoApplied EXCEPT !.op = "replace", !.section = section,
                                    !.old_content = old_content,
                                    !.new_content = new_content],
                  CoreMemory_replace(core_memory, section, old_content, new_content),
                  << >>)

CoreCreate ==
    \E section \in SectionNames, initial_content \in InitialTexts :
        CoreApply([NoApplied EXCEPT !.op = "create", !.section = section,
                                    !.content = initial_content],
                  create_section(core_memory, section, initial_content), << >>)

CoreDelete ==
    \E section \in SectionNames :
        CoreApply([NoApplied EXCEPT !.op = "delete", !.section = section],
                  delete_section(core_memory, section), << >>)

CoreRender ==
    CoreApply([NoApplied EXCEPT !.op = "to_string"],
              [ok |-> TRUE, sections |-> core_memory],
              CoreMemory_to_string(core_memory))

CoreNext == CoreAppend \/ CoreReplace \/ CoreCreate \/ CoreDelete \/ CoreRender

CoreSpec == CoreInit /\ [][CoreNext]_vars

(********************** the function executor on its own *******************)
ExecInit ==
    /\ config = AgentConfig
    /\ InitQueue
    /\ core_memory = InitialSections
    /\ pc = "Idle"
    /\ iteration = 0
    /\ outcome = NoOutcome
    /\ dispatch = NoDispatch
    /\ llm_calls = 0
    /\ detours = 0
    /\ turns = 0
    /\ trace = << >>
    /\ applied = NoExecuted
    /\ issued = << >>
    /\ archival_storage = EmptyCollection
    /\ executor_memory = SharedMemory

\* one call of execute, with the working context it leaves
ExecCall ==
    \E call \in ExecCalls, storage_up \in BOOLEAN :
        LET r == execute(call.name, call.arguments, core_memory, storage_up)
        IN  /\ nops < MaxExecOps
            /\ nops' = nops + 1
            /\ core_memory' = r.sections
            /\ applied' = [op |-> "execute", name |-> call.name,
                           arguments |-> call.arguments, storage_up |-> storage_up,
                           status |-> r.status, message |-> r.message,
                           output |-> r.output, pre_sections |-> core_memory]
            /\ UNCHANGED <<config, queue, recall, entered, cleared, last, issued,
                   archival_storage, executor_memory>>
            /\ UNCHANGED <<pc, iteration, outcome, dispatch, llm_calls, detours,
                           turns, trace>>

ExecSpec == ExecInit /\ [][ExecCall]_vars

(************************ the recall store on its own *********************)
StoreInit ==
    /\ config = AgentConfig
    /\ InitQueue
    /\ core_memory = InitialSections
    /\ pc = "Idle"
    /\ iteration = 0
    /\ outcome = NoOutcome
    /\ dispatch = NoDispatch
    /\ llm_calls = 0
    /\ detours = 0
    /\ turns = 0
    /\ trace = << >>
    /\ applied = NoStoreOp
    /\ issued = << >>
    /\ archival_storage = EmptyCollection
    /\ executor_memory = SharedMemory

StoreFrame ==
    /\ UNCHANGED <<config, queue, entered, cleared, last, archival_storage,
                   executor_memory>>
    /\ UNCHANGED avars

\* a write: at most MaxStoreOps of them
StoreWrite(store, op) ==
    /\ nops < MaxStoreOps
    /\ nops' = nops + 1
    /\ recall' = store
    /\ applied' = [op EXCEPT !.pre_store = recall]
    /\ StoreFrame

\* a read leaves the table as it is, so only the first read after a write
\* is followed
StoreRead(op) ==
    /\ applied.op \in {"none", "insert", "delete", "clear"}
    /\ applied' = [op EXCEPT !.pre_store = recall]
    /\ UNCHANGED <<recall, nops, issued>>
    /\ StoreFrame

\* insert_message with an explicit timestamp or with CURRENT_TIMESTAMP
StoreInsert ==
    \E content \in StoreTexts, timestamp \in Timestamps :
        LET store == insert_message_at(recall, "user", content, timestamp, NoMetadata)
        IN  /\ StoreWrite(store, [NoStoreOp EXCEPT !.op = "insert",
                                                   !.message_id = lastrowid(store),
                                                   !.ok = TRUE])
            /\ issued' = Append(issued, lastrowid(store))

StoreDelete ==
    \E message_id \in 1..(recall.seq + 1) :
        LET r == delete_message(recall, message_id)
        IN  /\ StoreWrite(r.store, [NoStoreOp EXCEPT !.op = "delete",
                                                     !.message_id = message_id,
                                                     !.ok = r.ok])
            /\ UNCHANGED issued

StoreClear ==
    /\ StoreWrite(clear_all(recall), [NoStoreOp EXCEPT !.op = "clear", !.ok = TRUE])
    /\ UNCHANGED issued

StoreSearch ==
    \E query \in StoreQueries, limit \in 1..MaxLimit, page \in 0..1,
       ties \in TieOrders :
        LET offset == page * limit
        IN
        StoreRead([NoStoreOp EXCEPT
                      !.op = "search", !.query = query, !.limit = limit,
                      !.offset = offset, !.ties = ties, !.ok = TRUE,
                      !.result = search_messages(recall, query, limit, offset, ties)])

\* the tool, on an executor configured with a page size
StoreConversationSearch ==
    \E query \in StoreQueries, page_size \in 1..MaxLimit, page \in 0..1,
       ties \in TieOrders :
        StoreRead([NoStoreOp EXCEPT
                      !.op = "conversation_search", !.query = query,
                      !.limit = page_size, !.offset = page * page_size,
                      !.ties = ties, !.ok = TRUE,
                      !.result = conversation_search(recall, query, page, page_size, ties)])

StoreRecent ==
    \E limit \in 1..MaxLimit, ties \in TieOrders :
        StoreRead([NoStoreOp EXCEPT
                      !.op = "recent", !.limit = limit, !.ties = ties, !.ok = TRUE,
                      !.result = get_recent_messages(recall, limit, ties)])

StoreAll ==
    \E ties \in TieOrders :
        StoreRead([NoStoreOp EXCEPT
                      !.op = "all", !.ties = ties, !.ok = TRUE,
                      !.result = get_all_messages(recall, ties)])

StoreNext ==
    \/ StoreInsert \/ StoreDelete \/ StoreClear
    \/ StoreSearch \/ StoreConversationSearch \/ StoreRecent \/ StoreAll

RecallSpec == StoreInit /\ [][StoreNext]_vars

(***************** the archival store on its own **************************)
ArchiveTexts == {<<"hello", "there">>, <<"bye">>, <<"there", "hello">>}
ArchiveQueries == {<<"hello">>, <<"bye", "bye">>}

NoArchivalOp ==
    [op |-> "none", query |-> << >>, limit |-> 0, offset |-> 0, ties |-> "",
     on_zero |-> "", raised |-> FALSE, documents |-> << >>,
     pre_collection |-> EmptyCollection]

ArchivalInit ==
    /\ config = AgentConfig
    /\ InitQueue
    /\ core_memory = InitialSections
    /\ pc = "Idle"
    /\ iteration = 0
    /\ outcome = NoOutcome
    /\ dispatch = NoDispatch
    /\ llm_calls = 0
    /\ detours = 0
    /\ turns = 0
    /\ trace = << >>
    /\ applied = NoArchivalOp
    /\ issued = << >>
    /\ archival_storage = EmptyCollection
    /\ executor_memory = SharedMemory

ArchivalFrame ==
    /\ UNCHANGED <<qvars, avars, issued, executor_memory>>

ArchivalInsert ==
    \E content \in ArchiveTexts :
        /\ Len(archival_storage) < MaxDocs
        /\ archival_storage' = ChromaArchivalStorage_insert(archival_storage, content)
        /\ applied' = [NoArchivalOp EXCEPT !.op = "insert",
                                           !.pre_collection = archival_storage]
        /\ ArchivalFrame

\* a search leaves the collection as it is, so only the first search after
\* an insert is followed
ArchivalRead(op, r) ==
    /\ applied.op \in {"none", "insert"}
    /\ applied' = [op EXCEPT !.raised = r.raised, !.documents = r.documents,
                             !.pre_collection = archival_storage]
    /\ UNCHANGED archival_storage
    /\ ArchivalFrame

ArchivalSearch ==
    \E query \in ArchiveQueries, limit \in 1..MaxLimit, offset \in 0..(MaxPage * MaxLimit),
       ties \in TieOrders, on_zero \in ZeroResults :
        ArchivalRead([NoArchivalOp EXCEPT !.op = "search", !.query = query,
                                          !.limit = limit, !.offset = offset,
                                          !.ties = ties, !.on_zero = on_zero],
                     ChromaArchivalStorage_search(archival_storage, query, limit,
                                                  offset, ties, on_zero))

ArchivalMemorySearch ==
    \E query \in ArchiveQueries, page_size \in 1..MaxLimit, page \in 0..MaxPage,
       ties \in TieOrders, on_zero \in ZeroResults :
        LET r == archival_memory_search(archival_storage, query, page, page_size,
                                        ties, on_zero)
        IN  ArchivalRead([NoArchivalOp EXCEPT !.op = "archival_memory_search",
                                              !.query = query, !.limit = page_size,
                                              !.offset = page * page_size,
                                              !.ties = ties, !.on_zero = on_zero],
                         [raised |-> r.status = "error", documents |-> r.documents])

ArchivalNext == ArchivalInsert \/ ArchivalSearch \/ ArchivalMemorySearch

ArchivalSpec == ArchivalInit /\ [][ArchivalNext]_vars

(************ callers sharing one SQLiteRecallStorage *********************)
\* Threads calling insert_message on one store. The store keeps one
\* connection for all of them (check_same_thread=False) and takes no lock, so
\* the statements of two calls interleave: the engine runs one statement at a
\* time on the connection, and the driver reads the connection's last insert
\* rowid, and whether a transaction is open, in steps of their own.
Callers == {1, 2}
CallerText(t) == <<"from caller", t>>

NoResult == [finished |-> FALSE, inserted |-> 0, returned |-> 0, raised |-> FALSE]

NoCallers ==
    [op |-> "callers",
     pc |-> [t \in Callers |-> "idle"],
     calls |-> [t \in Callers |-> 0],
     inserted |-> [t \in Callers |-> 0],     \* history: the id of the row the call inserted
     lastrowid |-> [t \in Callers |-> 0],    \* cursor.lastrowid of the call's cursor
     sees_transaction |-> [t \in Callers |-> FALSE],
     result |-> [t \in Callers |-> NoResult], \* history: how the caller's last call ended
     last_insert_rowid |-> 0,                \* the connection's
     in_transaction |-> FALSE,               \* the connection's
     durable |-> 0]                          \* rows 1..durable of the table are committed

SharedInit ==
    /\ config = AgentConfig
    /\ InitQueue
    /\ core_memory = InitialSections
    /\ pc = "Idle"
    /\ iteration = 0
    /\ outcome = NoOutcome
    /\ dispatch = NoDispatch
    /\ llm_calls = 0
    /\ detours = 0
    /\ turns = 0
    /\ trace = << >>
    /\ applied = NoCallers
    /\ issued = << >>
    /\ archival_storage = EmptyCollection
    /\ executor_memory = SharedMemory

SharedFrame ==
    /\ UNCHANGED <<config, queue, entered, cleared, last, nops>>
    /\ UNCHANGED <<avars, archival_storage, executor_memory>>

\* cursor.execute(INSERT ...): the engine opens the connection's transaction
\* if none is open and inserts the row
InsertExecute(t) ==
    LET store == insert_message(recall, "user", CallerText(t), NoMetadata)
    IN  /\ applied.pc[t] = "idle"
        /\ applied.calls[t] < MaxInserts
        /\ recall' = store
        /\ applied' = [applied EXCEPT !.pc[t] = "executed",
                                      !.calls[t] = @ + 1,
                                      !.inserted[t] = lastrowid(store),
                                      !.last_insert_rowid = lastrowid(store),
                                      !.in_transaction = TRUE]
        /\ UNCHANGED issued
        /\ SharedFrame

\* still in cursor.execute: the cursor takes the connection's last insert
\* rowid as its lastrowid
InsertFetchRowid(t) ==
    /\ applied.pc[t] = "executed"
    /\ applied' = [applied EXCEPT !.pc[t] = "fetched",
                                  !.lastrowid[t] = applied.last_insert_rowid]
    /\ UNCHANGED <<recall, issued>>
    /\ SharedFrame

\* self.conn.commit(): the driver first looks whether a transaction is open
CommitCheck(t) ==
    /\ applied.pc[t] = "fetched"
    /\ applied' = [applied EXCEPT !.pc[t] = "checked",
                                  !.sees_transaction[t] = applied.in_transaction]
    /\ UNCHANGED <<recall, issued>>
    /\ SharedFrame

\* end of insert_message: return cursor.lastrowid, or the exception of commit
Finish(t, raised) ==
    [finished |-> TRUE, inserted |-> applied.inserted[t],
     returned |-> IF raised THEN 0 ELSE applied.lastrowid[t], raised |-> raised]

\* ... and then runs COMMIT if it saw one: everything inserted on the
\* connection becomes durable, or the engine refuses because another caller
\* has committed in between; then insert_message returns cursor.lastrowid
CommitReturn(t) ==
    /\ applied.pc[t] = "checked"
    /\ IF applied.sees_transaction[t] /\ ~applied.in_transaction
       THEN /\ applied' = [applied EXCEPT !.pc[t] = "idle",
                                          !.result[t] = Finish(t, TRUE)]
            /\ UNCHANGED issued
       ELSE /\ applied' = [applied EXCEPT
                              !.pc[t] = "idle",
                              !.result[t] = Finish(t, FALSE),
                              !.in_transaction =
                                  IF applied.sees_transaction[t] THEN FALSE ELSE @,
                              !.durable =
                                  IF applied.sees_transaction[t] THEN Len(recall.rows) ELSE @]
            /\ issued' = Append(issued, applied.lastrowid[t])
    /\ UNCHANGED recall
    /\ SharedFrame

SharedNext ==
    \E t \in Callers :
        \/ InsertExecute(t)
        \/ InsertFetchRowid(t)
        \/ CommitCheck(t)
        \/ CommitReturn(t)

SharedSpec == SharedInit /\ [][SharedNext]_vars

(******************** the token counter on its own ************************)
IntText == <<"12345">>
DictMessages ==
    { AsDict(Message("user", ShortText, NoMetadata)),
      AsDict(Message("function", LongText, MetaText)),
      << >>,
      <<[key |-> "role", value |-> Value("str", RoleText("assistant"), << >>)],
        [key |-> "content", value |-> Value("NoneType", <<"None">>, << >>)],
        [key |-> "tool_calls",
         value |-> Value("list", <<"[...]">>,
                         <<Value("str", ShortText, << >>),
                           Value("dict", MetaText, << >>),
                           Value("int", IntText, << >>)>>)]>>,
      <<[key |-> "role", value |-> Value("str", RoleText("user"), << >>)],
        [key |-> "content", value |-> Value("str", ShortText, << >>)],
        [key |-> "timestamp", value |-> Value("int", IntText, << >>)]>> }

MessageLists == UNION {[1..n -> DictMessages] : n \in 0..MaxMessages}

TokenInit ==
    /\ config = AgentConfig
    /\ InitQueue
    /\ core_memory = InitialSections
    /\ pc = "Idle"
    /\ iteration = 0
    /\ outcome = NoOutcome
    /\ dispatch = NoDispatch
    /\ llm_calls = 0
    /\ detours = 0
    /\ turns = 0
    /\ trace = << >>
    /\ applied \in {[op |-> "messages", messages |-> messages, result |-> 0] :
                        messages \in MessageLists}
    /\ issued = << >>
    /\ archival_storage = EmptyCollection
    /\ executor_memory = SharedMemory

CountMessageTokens ==
    /\ applied.op = "messages"
    /\ applied' = [applied EXCEPT
                      !.op = "count_message_tokens",
                      !.result = TokenCounter_count_message_tokens(applied.messages)]
    /\ UNCHANGED <<qvars, avars, issued, archival_storage, executor_memory>>

TokenSpec == TokenInit /\ [][CountMessageTokens]_vars

(********************* the batch loader on its own ************************)
Shapes == {"flat list", "session mapping", "nested conversation", "nested"}
SessionIds == <<"s1", "s2">>
LineText(i) == [k \in 1..i |-> "word"]

\* a session of n messages, bare strings or objects with a role of their own
SessionInputs == [bare : BOOLEAN, n : 0..MaxStrings]
Documents ==
    {[shape |-> shape, sessions |-> sessions] :
        shape \in Shapes, sessions \in [1..1 -> SessionInputs] \cup [1..2 -> SessionInputs]}

MessagesOf(session) ==
    JList([i \in 1..session.n |->
        IF session.bare THEN JStr(LineText(i))
        ELSE JDict(<<Item("role", JStr(<<"assistant">>)),
                     Item("content", JStr(LineText(i)))>>)])
SessionsOf(doc) ==
    JDict([i \in 1..Len(doc.sessions) |-> Item(SessionIds[i], MessagesOf(doc.sessions[i]))])
ToJson(doc) ==
    CASE doc.shape = "flat list" -> MessagesOf(doc.sessions[1])
      [] doc.shape = "session mapping" -> SessionsOf(doc)
      [] doc.shape = "nested conversation" ->
            JDict(<<Item("c1", JDict(<<Item("conversation", SessionsOf(doc))>>))>>)
      [] OTHER -> JDict(<<Item("c1", SessionsOf(doc))>>)

LoaderInit ==
    /\ config = AgentConfig
    /\ InitQueue
    /\ core_memory = InitialSections
    /\ pc = "Idle"
    /\ iteration = 0
    /\ outcome = NoOutcome
    /\ dispatch = NoDispatch
    /\ llm_calls = 0
    /\ detours = 0
    /\ turns = 0
    /\ trace = << >>
    /\ applied \in {[op |-> "document", doc |-> doc, raised |-> FALSE, stores |-> << >>] :
                        doc \in {d \in Documents :
                                    d.shape = "flat list" => Len(d.sessions) = 1}}
    /\ issued = << >>
    /\ archival_storage = EmptyCollection
    /\ executor_memory = SharedMemory

IngestFromJsonFile ==
    \E now \in Timestamps :
        LET r == ingest_from_json_file(ToJson(applied.doc), now)
        IN  /\ applied.op = "document"
            /\ applied' = [applied EXCEPT !.op = "ingest", !.raised = r.raised,
                                          !.stores = r.stores]
            /\ UNCHANGED <<qvars, avars, issued, archival_storage, executor_memory>>

LoaderSpec == LoaderInit /\ [][IngestFromJsonFile]_vars

(******************** turns with resets between them **********************)
\* The agent is built over stores that may hold rows of earlier runs.
PersistedStore == insert_message(EmptyStore, "user", ShortText, NoMetadata)
PersistedCollection == ChromaArchivalStorage_insert(EmptyCollection, <<"hello", "there">>)

NoCompose ==
    [op |-> "none", context |-> << >>, snapshot |-> << >>, tool_sections |-> << >>,
     name |-> "", status |-> "", after_reset |-> FALSE,
     pre_queue |-> << >>, pre_sections |-> << >>,
     pre_recall |-> EmptyStore, pre_archival |-> EmptyCollection]

\* the sections of the CoreMemory object the FunctionExecutor was built with:
\* the agent's own until reset() binds the agent to a new object
ExecutorSections ==
    IF executor_memory.shared THEN core_memory ELSE executor_memory.sections

ResetInit ==
    /\ config = AgentConfig
    /\ queue = <<EmptySummary>>
    /\ \E persisted \in BOOLEAN :
           /\ recall = IF persisted THEN PersistedStore ELSE EmptyStore
           /\ archival_storage = IF persisted THEN PersistedCollection
                                               ELSE EmptyCollection
    /\ entered = << >>
    /\ cleared = FALSE
    /\ last = NoCall
    /\ nops = 0
    /\ core_memory = InitialSections
    /\ pc = "Idle"
    /\ iteration = 0
    /\ outcome = NoOutcome
    /\ dispatch = NoDispatch
    /\ llm_calls = 0
    /\ detours = 0
    /\ turns = 0
    /\ trace = << >>
    /\ applied = NoCompose
    /\ issued = << >>
    /\ executor_memory = SharedMemory

\* the core-memory calls dispatched so far in the session
EditsMade ==
    Cardinality({i \in 1..Len(trace) : trace[i].name # "send_message"
                                          /\ trace[i].kind = "tool"})

ResetBegin == BeginStep({ShortText, WindowText}, MaxResetTurns)

\* the LLM call raises with a text that passes for the pressure alert, so
\* that the add of the error message can evict and write a summary
ResetFails == FailStep({PressureText})

\* one heartbeat iteration with a tool call: the context is built from the
\* agent's CoreMemory, the call is executed by the FunctionExecutor on the
\* CoreMemory it was built with
ResetDispatch ==
    \E call \in {SendHello, AppendHuman},
       reply \in AgentSummaryReplies :
        LET context == MemGPTAgent_build_context(core_memory, queue)
            r == execute(call.name, call.arguments, ExecutorSections, TRUE)
            result_text == format_function_result(call.name, r.status, r.message, r.output)
            st1 == Add(QState, config, FunctionCallMessage(call.name, call.arguments), reply)
            st2 == Add(st1, config, FunctionResultMessage(result_text), reply)
            done == call.name = "send_message" /\ r.status = "success"
            d == [kind |-> "tool", name |-> call.name, arguments |-> call.arguments,
                  status |-> r.status, message |-> r.message,
                  content |-> Get(call.arguments, "content", None),
                  finish_reason |-> "tool_calls", storage_failed |-> FALSE,
                  pre_queue |-> queue, pre_sections |-> core_memory]
        IN  /\ pc = "Loop"
            /\ iteration < max_iterations
            /\ ~done => EditsMade < MaxEdits
            /\ detours' = IF done THEN detours ELSE detours + 1
            /\ queue' = st2.queue
            /\ recall' = st2.recall
            /\ entered' = st2.entered
            /\ last' = st2.last
            /\ core_memory' = IF executor_memory.shared THEN r.sections ELSE core_memory
            /\ executor_memory' = IF executor_memory.shared THEN executor_memory
                                  ELSE [shared |-> FALSE, sections |-> r.sections]
            /\ applied' = [NoCompose EXCEPT
                              !.op = "iteration", !.context = context,
                              !.snapshot = MemGPTAgent_get_core_memory(core_memory),
                              !.tool_sections = ExecutorSections,
                              !.name = call.name, !.status = r.status,
                              !.after_reset = ~executor_memory.shared,
                              !.pre_queue = queue, !.pre_sections = core_memory]
            /\ iteration' = iteration + 1
            /\ llm_calls' = llm_calls + 1
            /\ dispatch' = d
            /\ trace' = Append(trace, TraceEntry(d))
            /\ IF done
               THEN /\ outcome' = ReturnSuccess(Get(r.output, "content", << >>),
                                                iteration + 1)
                    /\ pc' = "Returned"
               ELSE /\ outcome' = outcome
                    /\ pc' = "Loop"
            /\ UNCHANGED <<config, cleared, nops, turns, issued, archival_storage>>

\* reset() called between two turns, when there is something for it to drop
Reset ==
    LET r == MemGPTAgent_reset(core_memory, queue, recall)
    IN  /\ pc = "Returned"
        /\ executor_memory.shared \/ Len(queue) > 1
        /\ issued' = Append(issued, "reset")
        /\ core_memory' = r.core_memory
        /\ executor_memory' = [shared |-> FALSE, sections |-> ExecutorSections]
        /\ queue' = r.queue
        /\ recall' = r.recall
        /\ cleared' = TRUE
        /\ applied' = [NoCompose EXCEPT
                          !.op = "reset", !.after_reset = TRUE,
                          !.tool_sections = ExecutorSections,
                          !.pre_queue = queue, !.pre_sections = core_memory,
                          !.pre_recall = recall, !.pre_archival = archival_storage]
        /\ UNCHANGED <<config, entered, last, nops, pc, iteration, outcome, dispatch,
                       llm_calls, detours, turns, trace, archival_storage>>

ResetNext == ResetBegin \/ ResetFails \/ ResetDispatch \/ Reset

ResetSpec == ResetInit /\ [][ResetNext]_vars

(********************* the converters on their own ************************)
\* One session of n messages with the date the dataset gives for it (absent,
\* not in the format, or in the format), converted at some moment now().
ConverterDates ==
    {[given |-> FALSE, parses |-> FALSE, minute |-> 0],
     [given |-> TRUE, parses |-> FALSE, minute |-> 0]}
        \cup {[given |-> TRUE, parses |-> TRUE, minute |-> m] : m \in 0..MaxMinute}

Moments == {Moment(m, sec) : m \in 0..MaxMinute, sec \in 0..(SecondsPerMinute - 1)}

LocomoSession(n) ==
    [i \in 1..n |-> [speaker |-> IF i % 2 = 1 THEN "A" ELSE "B", text |-> LineText(i)]]

LongMemEvalSession(n) ==
    [i \in 1..n |-> [role |-> IF i % 2 = 1 THEN "user" ELSE "assistant",
                     content |-> LineText(i)]]

ConverterInit ==
    /\ config = AgentConfig
    /\ InitQueue
    /\ core_memory = InitialSections
    /\ pc = "Idle"
    /\ iteration = 0
    /\ outcome = NoOutcome
    /\ dispatch = NoDispatch
    /\ llm_calls = 0
    /\ detours = 0
    /\ turns = 0
    /\ trace = << >>
    /\ applied \in {[op |-> "session", converter |-> c, n |-> n, date |-> d,
                     now |-> Moment(0, 0), messages |-> << >>] :
                        c \in {"locomo", "longmemeval"}, n \in 0..MaxSession,
                        d \in ConverterDates}
    /\ issued = << >>
    /\ archival_storage = EmptyCollection
    /\ executor_memory = SharedMemory

ConvertSession ==
    \E now \in Moments :
        /\ applied.op = "session"
        /\ applied' =
               [applied EXCEPT
                   !.op = "converted", !.now = now,
                   !.messages =
                       IF applied.converter = "locomo"
                       THEN convert_locomo(LocomoSession(applied.n), "A", applied.date, now)
                       ELSE convert_longmemeval(LongMemEvalSession(applied.n),
                                                applied.date, now)]
        /\ UNCHANGED <<qvars, avars, issued, archival_storage, executor_memory>>

ConverterSpec == ConverterInit /\ [][ConvertSession]_vars

(***************************************************************************)
(*                              Claims                                     *)
(***************************************************************************)
\* The queue check_memory_pressure looked at in the last add: the queue the
\* call started from with the caller's message appended.
Appended == Append(last.pre_queue, last.msg)
TokensAtCheck == count_message_tokens(Appended)
ClaimedK == IF (Len(Appended) - 1) \div 3 >= 1 THEN (Len(Appended) - 1) \div 3 ELSE 1
StripId(row) == Message(row.role, row.content, row.metadata)
RowMessages(rows) == [i \in 1..Len(rows) |-> StripId(rows[i])]

\* C1: after any add_message either the queue size is at most
\* max_tokens * flush_threshold or an eviction was executed during that call.
C1_FlushOrEvict ==
    last.op = "add" =>
        \/ get_queue_size(queue) * 100 <= config.max_tokens * config.flush_pct
        \/ last.evicted

\* C2: an eviction on a queue of n >= 2 slots removes exactly
\* k = max(1, floor((n-1)/3)) messages, the k oldest non-summary slots; the
\* queue length becomes n - k, slot 0 is the one summary, and the surviving
\* messages keep their order and content.
C2_EvictsOldestThird ==
    (last.op = "add" /\ last.evicted) =>
        LET n == Len(Appended)
            k == ClaimedK
        IN  /\ n >= 2
            /\ Len(queue) = n - k
            /\ queue[1].role = "system"
            /\ SubSeq(queue, 2, Len(queue)) = SubSeq(Appended, k + 2, n)
            /\ RowMessages(SubSeq(recall.rows, Len(last.pre_store.rows) + 1,
                                  Len(recall.rows)))
                   = SubSeq(Appended, 2, k + 1)

C2_Witness ==
    /\ last.op = "add" /\ last.evicted
    /\ Len(Appended) >= 7
    /\ ClaimedK = 2
    /\ Len(queue) > 1

\* C3: an eviction inserts exactly the k evicted messages into the recall
\* store, in queue order with ascending ids, so the record count grows by k;
\* an add_message without eviction leaves the recall store as it was.
C3_RecallGetsEvictedInOrder ==
    last.op = "add" =>
        IF last.evicted
        THEN /\ Len(recall.rows) = Len(last.pre_store.rows) + ClaimedK
             /\ SubSeq(recall.rows, 1, Len(last.pre_store.rows)) = last.pre_store.rows
             /\ \A j \in 1..ClaimedK :
                    LET row == recall.rows[Len(last.pre_store.rows) + j]
                    IN  /\ StripId(row) = Appended[j + 1]
                        /\ row.id = last.pre_store.seq + j
             /\ \A i, j \in 1..Len(recall.rows) :
                    i < j => recall.rows[i].id < recall.rows[j].id
        ELSE recall = last.pre_store

C3_Witness ==
    /\ last.op = "add" /\ last.evicted
    /\ Len(last.pre_store.rows) > 0
    /\ Len(recall.rows) > Len(last.pre_store.rows)

\* C4: with no clear, the recall records in id order followed by queue slots
\* 1..n are the messages that entered the queue (added messages and injected
\* warnings) in the order they entered.
C4_NoLossNoReorder ==
    ~cleared =>
        /\ RowMessages(recall.rows) \o Tail(queue) = entered
        /\ \A i, j \in 1..Len(recall.rows) :
               i < j => recall.rows[i].id < recall.rows[j].id

C4_Witness ==
    /\ ~cleared
    /\ Len(recall.rows) >= 2
    /\ Len(queue) >= 3
    /\ \E i \in 1..Len(entered) : entered[i] = WarningMsg

\* C5: the queue always has at least one slot and slot 0 has role system; a
\* new QueueManager and a queue after clear_queue(keep_summary=False) hold
\* exactly the empty-state summary.
C5_SlotZeroIsSummary ==
    /\ Len(queue) >= 1
    /\ queue[1].role = "system"
    /\ last.op \in {"init", "clear"} =>
           queue = <<[role |-> "system",
                      content |-> <<"Conversation summary:", "No previous interactions.">>,
                      metadata |-> << >>]>>

C5_Witness ==
    /\ last.op = "clear"
    /\ Len(last.pre_queue) > 1
    /\ last.pre_queue[1].content # EmptySummaryText

C7_EvictionShrinksTokens ==
    (last.op = "add" /\ last.evicted) => get_queue_size(queue) < TokensAtCheck

\* C7 amended: an eviction leaves strictly fewer slots, and changes the size by
\* exactly the growth of the summary minus the tokens of the k evicted
\* messages (4 per message plus their fields).
C7_EvictionTokenBalance ==
    (last.op = "add" /\ last.evicted) =>
        LET evictedMsgs == SubSeq(Appended, 2, ClaimedK + 1)
            evictedTokens == SumMessageTokens(evictedMsgs)
            growth == Len(queue[1].content) - Len(Appended[1].content)
        IN  /\ Len(queue) < Len(Appended)
            /\ get_queue_size(queue) = TokensAtCheck - evictedTokens + growth
            /\ get_queue_size(queue) < TokensAtCheck <=> growth < evictedTokens

C7_Witness ==
    /\ last.op = "add" /\ last.evicted
    /\ last.reply.raises
    /\ get_queue_size(queue) < TokensAtCheck

\* C8: once a warning has been injected by an add, a second add whose token
\* count is above the warning threshold but below the flush threshold does not
\* inject another warning.
C8_NoDuplicateWarning ==
    ( /\ last.op = "add"
      /\ Len(last.pre_queue) > 1
      /\ last.pre_queue[Len(last.pre_queue)] = WarningMsg
      /\ TokensAtCheck * 100 > config.max_tokens * config.warning_pct
      /\ TokensAtCheck * 100 < config.max_tokens * config.flush_pct )
    => (~last.ret /\ queue = Appended)

\* C9: add_message returns true iff the call appended a memory-pressure
\* warning; it appends at most one, and only when the token count after the
\* add is above max_tokens * warning_threshold and the last slot (the added
\* message) is not already a memory-pressure system message.
C9_ReturnIffWarningInjected ==
    last.op = "add" =>
        LET injected == (queue = Append(Appended, WarningMsg))
        IN  /\ last.ret <=> injected
            /\ Len(queue) <= Len(Appended) + 1
            /\ ~injected => Len(queue) <= Len(Appended)
            /\ injected =>
                  /\ TokensAtCheck * 100 > config.max_tokens * config.warning_pct
                  /\ ~( /\ last.msg.role = "system"
                        /\ \E i \in 1..Len(last.msg.content) :
                               last.msg.content[i] = "Memory pressure" )

C9_Witness ==
    /\ last.op = "add" /\ last.ret
    /\ queue[Len(queue)] = WarningMsg
    /\ last.msg.role = "system"

\* C10: a successful send_message always ends the turn with status success and
\* its content as the returned message, no other outcome has status success, and
\* after a successful execution of any other tool the turn goes on: the next
\* step is another LLM call, unless the iteration cap has been reached.
SentMessage ==
    dispatch.kind = "tool" /\ dispatch.name = "send_message" /\ dispatch.status = "success"
RanOtherTool ==
    dispatch.kind = "tool" /\ dispatch.name # "send_message" /\ dispatch.status = "success"

C10_SendMessageAloneEndsHeartbeat ==
    /\ [](SentMessage =>
              /\ pc = "Returned"
              /\ outcome.status = "success"
              /\ outcome.message = dispatch.content)
    /\ [](outcome.status = "success" => SentMessage)
    /\ [](RanOtherTool =>
              \/ pc = "Loop"
              \/ /\ pc = "Returned"
                 /\ outcome.status = "max_iterations"
                 /\ llm_calls = 10)
    /\ [][(RanOtherTool /\ pc = "Loop" /\ llm_calls < 10)
              => llm_calls' = llm_calls + 1]_vars

C10_Witness ==
    /\ SentMessage
    /\ outcome.status = "success"
    /\ outcome.message = <<"hello">>
    /\ llm_calls >= 2
    /\ core_memory # InitialSections

(************************* claims on the agent loop ***********************)
\* The messages the last heartbeat iteration enqueued, and whether the queue
\* it started from is still there in front of them.
Enqueued == SubSeq(queue, Len(dispatch.pre_queue) + 1, Len(queue))
PrefixKept ==
    /\ Len(queue) >= Len(dispatch.pre_queue)
    /\ SubSeq(queue, 1, Len(dispatch.pre_queue)) = dispatch.pre_queue
NotWarning(m) == m # WarningMsg
IsCallMessage(m, name) ==
    /\ m.role = "assistant"
    /\ Len(m.content) >= 2
    /\ m.content[1] = "[Function Call: "
    /\ m.content[2] = name
IsResultMessage(m, name, status) ==
    /\ m.role = "function"
    /\ Len(m.content) >= 5
    /\ m.content[1] = "Function: "
    /\ m.content[2] = name
    /\ m.content[4] = "Status: "
    /\ m.content[5] = status
IsLLMError(m) ==
    m.role = "system" /\ m.content # << >> /\ m.content[1] = "LLM API Error: "
\* the turn goes on after the last iteration: control is at the top of the
\* loop, and the only way it has left the loop since is the exhausted cap
HeartbeatGoesOn ==
    \/ pc = "Loop"
    \/ /\ pc = "Returned"
       /\ outcome.status = "max_iterations"
       /\ llm_calls = 10
OnlyOtherTools ==
    /\ trace # << >>
    /\ \A i \in 1..Len(trace) :
           trace[i].kind = "tool" /\ trace[i].name # "send_message"

\* C11: every turn ends, after at most 10 LLM calls, whatever the LLM answers;
\* a turn in which every LLM answer was a tool call other than send_message
\* returns status max_iterations with iterations = 10, and no send_message was
\* executed in it.
C11_TurnEndsWithinCap ==
    /\ [](llm_calls <= 10 /\ Len(trace) = llm_calls)
    /\ (pc = "Loop") ~> (pc = "Returned")
    /\ []((pc = "Returned" /\ OnlyOtherTools) =>
              /\ outcome.status = "max_iterations"
              /\ outcome.iterations = 10
              /\ llm_calls = 10
              /\ \A i \in 1..Len(queue) :
                     ~IsResultMessage(queue[i], "send_message", "success")
                     /\ ~IsResultMessage(queue[i], "send_message", "error"))

C11_Witness ==
    /\ pc = "Returned"
    /\ OnlyOtherTools
    /\ outcome.status = "max_iterations"
    /\ Len(trace) = 10
    /\ outcome.iterations = 10
    /\ \A i \in 1..Len(trace) : trace[i].name = "core_memory_append"
    /\ Len(SectionText(core_memory, "human")) > 10

\* C12: step returns status max_iterations only when the heartbeat iteration
\* cap was reached, that is only after 10 LLM calls were made in that turn.
C12_MaxIterationsOnlyAtCap ==
    outcome.status = "max_iterations" => (llm_calls = 10 /\ iteration = 10)

\* C13: a contract violation in a tool call (unknown tool name, missing
\* argument, unknown section, replace target absent), for every tool of the
\* dispatch table and for unknown names, yields an error tool result that is
\* enqueued, and the turn goes on: control is back at the top of the heartbeat
\* loop, where the next LLM call is made while below the cap.
ContractViolation ==
    dispatch.kind = "tool" /\ dispatch.status = "error" /\ ~dispatch.storage_failed

C13_ContractViolationNeverFatal ==
    ContractViolation =>
        /\ PrefixKept
        /\ \E i \in 1..Len(Enqueued) :
               IsResultMessage(Enqueued[i], dispatch.name, "error")
        /\ HeartbeatGoesOn

\* C14: a core_memory_append or core_memory_replace call naming a section that
\* does not exist returns status error with a message that mentions the
\* section name, leaves every working-context section unchanged, adds exactly
\* one tool-result message to the queue, and the heartbeat continues.
UnknownSectionCall ==
    /\ dispatch.kind = "tool"
    /\ dispatch.name \in {"core_memory_append", "core_memory_replace"}
    /\ ArgumentsFit(dispatch.name, dispatch.arguments)
    /\ \A i \in 1..Len(dispatch.pre_sections) :
           <<dispatch.pre_sections[i].name>> # Get(dispatch.arguments, "section", None)

C14_UnknownSectionIsAnErrorResult ==
    UnknownSectionCall =>
        LET section == Get(dispatch.arguments, "section", None)[1]
            results == {i \in 1..Len(Enqueued) : Enqueued[i].role = "function"}
        IN  /\ dispatch.status = "error"
            /\ \E i \in 1..Len(dispatch.message) : dispatch.message[i] = section
            /\ core_memory = dispatch.pre_sections
            /\ PrefixKept
            /\ Cardinality(results) = 1
            /\ \A i \in results :
                   /\ IsResultMessage(Enqueued[i], dispatch.name, "error")
                   /\ \E k \in 1..Len(Enqueued[i].content) :
                          Enqueued[i].content[k] = section
            /\ HeartbeatGoesOn
            /\ outcome.status \in {"none", "max_iterations"}

C14_Witness ==
    /\ UnknownSectionCall
    /\ dispatch.name = "core_memory_replace"
    /\ dispatch.status = "error"
    /\ core_memory # InitialSections
    /\ pc = "Loop"

\* C15: when the LLM completion call fails, step enqueues exactly one system
\* error message, makes no further LLM call in that turn and returns status
\* error; a later step starts from the queue and working context as they were
\* left and runs as any turn does.
C15_LLMFailureEndsTurnOnly ==
    /\ [](dispatch.kind = "fail" =>
              /\ pc = "Returned"
              /\ outcome.status = "error"
              /\ outcome.message = dispatch.message
              /\ PrefixKept
              /\ Cardinality({i \in 1..Len(Enqueued) : Enqueued[i].role = "system"
                                                        /\ NotWarning(Enqueued[i])}) = 1
              /\ Enqueued[1] = [role |-> "system", content |-> dispatch.message,
                                metadata |-> << >>]
              /\ \A i \in 2..Len(Enqueued) : Enqueued[i] = WarningMsg
              /\ core_memory = dispatch.pre_sections)
    /\ [][dispatch.kind = "fail" => (turns' = turns + 1 /\ llm_calls' = 0)]_vars
    /\ [][(outcome.status = "error" /\ turns' # turns) =>
              /\ pc' = "Loop"
              /\ core_memory' = core_memory
              /\ recall' = recall
              /\ Len(queue') > Len(queue)
              /\ SubSeq(queue', 1, Len(queue)) = queue
              /\ queue'[Len(queue) + 1].role = "user"]_vars
    /\ [](SentMessage => (pc = "Returned" /\ outcome.status = "success"
                            /\ outcome.iterations = llm_calls))

C15_Witness ==
    /\ turns = 2
    /\ SentMessage
    /\ outcome.status = "success"
    /\ llm_calls = 2
    /\ \E i \in 2..Len(dispatch.pre_queue) : IsLLMError(dispatch.pre_queue[i])
    /\ \E i \in 2..Len(dispatch.pre_queue) :
           IsResultMessage(dispatch.pre_queue[i], "core_memory_append", "success")

\* C16: a backing-store failure raised inside a tool call during a user turn
\* terminates that turn with an outcome of status error and an error message
\* enqueued; the heartbeat does not continue.
C16_StorageErrorEndsTurn ==
    (dispatch.kind = "tool" /\ dispatch.storage_failed) =>
        /\ pc = "Returned"
        /\ outcome.status = "error"

\* C17: when an LLM response carries no tool call, its prose is enqueued as
\* exactly one assistant message; with finish reason "stop" the turn ends with
\* status no_message carrying that prose as thought, otherwise control returns
\* to the top of the loop for another LLM call (until the cap); no other answer
\* gives status no_message.
C17_ProseIsOneAssistantMessage ==
    /\ dispatch.kind = "prose" =>
           /\ PrefixKept
           /\ Len(Enqueued) >= 1
           /\ Enqueued[1] = [role |-> "assistant", content |-> dispatch.content,
                             metadata |-> << >>]
           /\ \A i \in 2..Len(Enqueued) : Enqueued[i] = WarningMsg
           /\ Len(Enqueued) <= 2
           /\ core_memory = dispatch.pre_sections
           /\ IF dispatch.finish_reason = "stop"
              THEN /\ pc = "Returned"
                   /\ outcome.status = "no_message"
                   /\ "thought" \in outcome.keys
                   /\ outcome.thought = dispatch.content
              ELSE /\ HeartbeatGoesOn
                   /\ outcome.status \in {"none", "max_iterations"}
    /\ outcome.status = "no_message" =>
           (dispatch.kind = "prose" /\ dispatch.finish_reason = "stop")

C17_Witness ==
    /\ dispatch.kind = "prose"
    /\ outcome.status = "no_message"
    /\ outcome.thought = <<"thinking">>
    /\ Len(trace) >= 2
    /\ trace[Len(trace) - 1].kind = "prose"

\* the first turn of a new agent, begun with a user message, whose first LLM
\* answer was a successful send_message
FirstAnswerSent ==
    /\ turns = 1
    /\ llm_calls = 1
    /\ SentMessage
    /\ dispatch.pre_queue # <<EmptySummary>>

\* C18 as stated: each Dispatch enqueues exactly one assistant message
\* describing the call followed by exactly one tool-result message; for a new
\* agent whose first LLM response is a successful send_message the queue after
\* the turn is [slot 0 unchanged, user, assistant, tool result], iterations = 1.
C18_DispatchEnqueuesCallThenResult ==
    /\ dispatch.kind = "tool" =>
           /\ PrefixKept
           /\ Len(Enqueued) = 2
           /\ IsCallMessage(Enqueued[1], dispatch.name)
           /\ IsResultMessage(Enqueued[2], dispatch.name, dispatch.status)
    /\ FirstAnswerSent =>
           /\ Len(queue) = 4
           /\ queue[1] = EmptySummary
           /\ queue[2].role = "user"
           /\ queue[3].role = "assistant"
           /\ queue[4].role = "function"
           /\ outcome.iterations = 1

\* C18 amended: each Dispatch runs the tool once and enqueues one assistant
\* message describing the call and then one tool-result message (role
\* function); besides these the queue gains only memory-pressure warnings, one
\* after each of the two adds that left it above the warning threshold.  For a
\* new agent whose first LLM response is a successful send_message, the queue
\* without warnings is [slot 0 unchanged, user, assistant, tool result] and
\* iterations = 1, and it has exactly these 4 slots when its size ends at or
\* below the warning threshold.
C18_DispatchEnqueuesCallResultAndWarnings ==
    /\ dispatch.kind = "tool" =>
           LET kept == SelectSeq(Enqueued, NotWarning)
           IN  /\ PrefixKept
               /\ Len(kept) = 2
               /\ IsCallMessage(kept[1], dispatch.name)
               /\ IsResultMessage(kept[2], dispatch.name, dispatch.status)
               /\ IsCallMessage(Enqueued[1], dispatch.name)
               /\ Len(Enqueued) <= 4
               /\ \A i \in 1..(Len(Enqueued) - 1) :
                      Enqueued[i] = WarningMsg => Enqueued[i + 1] # WarningMsg
               /\ (dispatch.name = AppendHuman.name
                   /\ dispatch.arguments = AppendHuman.arguments) =>
                      SectionText(core_memory, "human")
                          = SectionText(dispatch.pre_sections, "human")
                                \o <<"\n">> \o FactText
    /\ FirstAnswerSent =>
           LET kept == SelectSeq(queue, NotWarning)
           IN  /\ Len(kept) = 4
               /\ kept[1] = EmptySummary
               /\ queue[1] = EmptySummary
               /\ kept[2].role = "user"
               /\ IsCallMessage(kept[3], "send_message")
               /\ IsResultMessage(kept[4], "send_message", "success")
               /\ outcome.iterations = 1
               /\ get_queue_size(queue) * 100 <= config.max_tokens * config.warning_pct
                      => Len(queue) = 4

C18_Witness ==
    /\ FirstAnswerSent
    /\ Len(queue) = 4
    /\ queue[2] = [role |-> "user", content |-> <<"hi">>, metadata |-> << >>]
    /\ outcome.message = <<"hello">>

\* C19: every terminal outcome of step carries an iterations field equal to
\* the number of LLM calls made in that turn.
C19_OutcomeCarriesIterations ==
    pc = "Returned" =>
        /\ outcome.status \in {"success", "no_message", "max_iterations", "error"}
        /\ "iterations" \in outcome.keys
        /\ outcome.iterations = llm_calls

(******************** claims on a recall store that fails ******************)
\* C20: an eviction is atomic with respect to a failing recall-store insert:
\* the system is left as before the eviction or as after it, so (with no
\* clear) every message that entered the queue is either in the recall store
\* or in slots 1..n, never both, and no message is persisted twice.
C20_EvictionAllOrNothing ==
    ~cleared =>
        /\ Len(recall.rows) + Len(queue) - 1 = Len(entered)
        /\ \A i \in 1..Len(recall.rows) :
               i <= Len(entered) /\ StripId(recall.rows[i]) = entered[i]

\* The first n of msgs as lines "ROLE: content" joined by newlines.
RECURSIVE EvictedLines(_, _)
EvictedLines(msgs, n) ==
    IF n = 0 THEN << >>
    ELSE IF n = 1 THEN <<Upper(msgs[1].role), ":">> \o msgs[1].content
    ELSE EvictedLines(msgs, n - 1) \o <<"\n">>
             \o <<Upper(msgs[n].role), ":">> \o msgs[n].content

\* C21: when the summarization callback raises during an eviction, or no
\* callback is configured, the eviction still completes and the new slot 0
\* content is the prior summary, then "\n\nRecent activity: ", then the first
\* 500 characters of the evicted messages rendered as lines "ROLE: content"
\* joined by newlines, then "...".
C21_FallbackSummaryOnFailure ==
    (last.op = "add" /\ last.evicted
        /\ (~config.summarize_func \/ last.reply.raises)) =>
        LET evicted_text == EvictedLines(SubSeq(Appended, 2, ClaimedK + 1), ClaimedK)
            kept == IF Len(evicted_text) <= 500 \div CharsPerToken
                    THEN Len(evicted_text) ELSE 500 \div CharsPerToken
        IN  /\ Len(queue) = Len(Appended) - ClaimedK
            /\ queue[1].role = "system"
            /\ queue[1].content
                   = Appended[1].content \o <<"\n\n", "Recent", " activity", ":">>
                         \o SubSeq(evicted_text, 1, kept) \o <<"...">>

C21_Witness ==
    /\ last.op = "add" /\ last.evicted
    /\ config.summarize_func /\ last.reply.raises
    /\ Appended[1].content = LongSummary
    /\ Len(format_messages_for_summary(SubSeq(Appended, 2, ClaimedK + 1)))
           > 500 \div CharsPerToken
    /\ Len(queue) > 1

\* C23: clear_queue(keep_summary=True) followed by get_summary() returns the
\* summary held immediately before the clear and leaves a queue of exactly
\* one slot, whatever the queue was before (after evictions, after
\* set_summary).
C23_ClearKeepsSummary ==
    last.op = "clear_keep" =>
        /\ get_summary(queue) = last.pre_queue[1].content
        /\ Len(queue) = 1

C23_Witness ==
    /\ last.op = "clear_keep"
    /\ Len(recall.rows) > 0
    /\ Len(last.pre_queue) > 1
    /\ last.pre_queue[1].content # EmptySummaryText
    /\ get_summary(queue) = last.pre_queue[1].content

\* C22: in the agent, after every eviction slot 0 reflects the prior summary
\* together with what was evicted, also when the agent's summarization LLM
\* call fails: the summary accumulated so far is never discarded.  Stated for
\* the failing call, whose outcome is fixed: slot 0 still holds the text of
\* the prior summary.
C22_SummaryNeverDiscarded ==
    (last.op = "add" /\ last.evicted
        /\ last.reply = MemGPTAgent_generate_summary([raises |-> TRUE, text |-> << >>])) =>
        Find(queue[1].content, Appended[1].content) # 0

\* the section names of a working context, in its order
NamesOf(sections) == [i \in 1..Len(sections) |-> sections[i].name]
Existed == \E i \in 1..Len(applied.pre_sections) :
               applied.pre_sections[i].name = applied.section
\* every section but the one the call named is as it was, at the same place
OthersKept ==
    /\ Len(core_memory) = Len(applied.pre_sections)
    /\ \A i \in 1..Len(core_memory) :
           applied.pre_sections[i].name # applied.section
               => core_memory[i] = applied.pre_sections[i]

\* C24: append(S, x) on an existing section S succeeds and get(S) becomes the
\* previous text followed by "\n" and x, all other sections unchanged; on a
\* section that does not exist append fails and modifies nothing.
C24_AppendExtendsSection ==
    applied.op = "append" =>
        IF Existed
        THEN /\ applied.ok
             /\ get_section(core_memory, applied.section)
                    = get_section(applied.pre_sections, applied.section)
                          \o <<"\n">> \o applied.content
             /\ OthersKept
        ELSE /\ ~applied.ok
             /\ core_memory = applied.pre_sections

C24_Witness ==
    /\ applied.op = "append" /\ applied.ok
    /\ applied.prev_op = "append"
    /\ Len(get_section(core_memory, applied.section)) >= 5
    /\ Len(core_memory) = 2

\* C25: replace(S, old, new) on an existing section replaces only the first
\* occurrence of old and leaves the rest of the section and all other
\* sections unchanged; if old does not occur in S, or S does not exist, it
\* fails without modifying any section.
C25_ReplaceFirstOccurrenceOnly ==
    applied.op = "replace" =>
        LET before == get_section(applied.pre_sections, applied.section)
            old == applied.old_content
            At(i) == /\ i + Len(old) - 1 <= Len(before)
                     /\ \A k \in 1..Len(old) : before[i + k - 1] = old[k]
            places == {i \in 1..(Len(before) + 1) : At(i)}
        IN  IF Existed /\ places # {}
            THEN \E i \in places :
                    /\ \A j \in places : i <= j
                    /\ applied.ok
                    /\ get_section(core_memory, applied.section)
                           = SubSeq(before, 1, i - 1) \o applied.new_content
                                 \o SubSeq(before, i + Len(old), Len(before))
                    /\ OthersKept
            ELSE /\ ~applied.ok
                 /\ core_memory = applied.pre_sections

C25_Witness ==
    /\ applied.op = "replace" /\ applied.ok
    /\ applied.section = "notes"
    /\ applied.old_content = <<"a">>
    /\ applied.new_content = <<"c">>
    /\ applied.pre_sections = CustomSections
    /\ get_section(core_memory, "notes") = <<"c", "b", "a">>

\* where the header of a section stands in a rendering, 0 when it is missing
HeaderAt(rendering, name) ==
    IF \E i \in 1..(Len(rendering) - 1) :
           rendering[i] = "[" /\ rendering[i + 1] = Upper(name)
    THEN CHOOSE i \in 1..(Len(rendering) - 1) :
             rendering[i] = "[" /\ rendering[i + 1] = Upper(name)
    ELSE 0

\* C26: the sections render in insertion order, and two successive
\* renderings with no mutation between them are identical; append and
\* replace never change the section order; create on an existing name and
\* delete on an unknown name fail, each without modifying any section (a
\* successful create puts the section last, a successful delete keeps the
\* order of the others).
C26_SectionOrderIsInsertionOrder ==
    /\ applied.op = "to_string" =>
           /\ \A i \in 1..Len(core_memory) :
                  HeaderAt(applied.result, core_memory[i].name) # 0
           /\ \A i, j \in 1..Len(core_memory) :
                  i < j => HeaderAt(applied.result, core_memory[i].name)
                               < HeaderAt(applied.result, core_memory[j].name)
           /\ applied.prev_op = "to_string" => applied.result = applied.prev_result
           /\ core_memory = applied.pre_sections
    /\ applied.op \in {"append", "replace"} =>
           NamesOf(core_memory) = NamesOf(applied.pre_sections)
    /\ applied.op = "create" =>
           IF Existed
           THEN ~applied.ok /\ core_memory = applied.pre_sections
           ELSE /\ applied.ok
                /\ NamesOf(core_memory)
                       = Append(NamesOf(applied.pre_sections), applied.section)
    /\ applied.op = "delete" =>
           IF Existed
           THEN /\ applied.ok
                /\ NamesOf(core_memory)
                       = SelectSeq(NamesOf(applied.pre_sections),
                                   LAMBDA n : n # applied.section)
           ELSE ~applied.ok /\ core_memory = applied.pre_sections

C26_Witness ==
    /\ applied.op = "to_string"
    /\ applied.prev_op = "create"
    /\ NamesOf(core_memory) = <<"persona", "human", "notes">>
    /\ HeaderAt(applied.result, "human") < HeaderAt(applied.result, "notes")

\* the type each tool parameter is declared with
ParamType(key) == IF key = "page" THEN "int" ELSE "str"
\* the arguments of the last execute do not have the shape the tool declares
ShapeMismatch ==
    /\ applied.name \in function_map
    /\ \/ applied.arguments = NotAMapping
       \/ \E key \in Required(applied.name) :
              \A i \in 1..Len(applied.arguments) : applied.arguments[i].key # key
       \/ \E i \in 1..Len(applied.arguments) :
              \/ applied.arguments[i].key
                     \notin Required(applied.name) \cup Optional(applied.name)
              \/ ArgType(applied.arguments[i]) # ParamType(applied.arguments[i].key)

\* C27: execute never raises: for every tool name, known or unknown, and
\* every argument shape (missing, extra or wrong-typed fields, arguments that
\* are not a mapping) it returns a result whose status is success or error,
\* and an argument-shape mismatch gives status error.
C27_ExecuteNeverRaisesShapeErrors ==
    applied.op = "execute" =>
        /\ applied.status \in {"success", "error"}
        /\ ShapeMismatch => applied.status = "error"

\* C28: of any two insert calls to one recall store the later returns a
\* strictly greater id, also with delete or clear calls between them: ids
\* are never reused.
C28_InsertIdsStrictlyIncrease ==
    /\ \A i, j \in 1..Len(issued) : i < j => issued[i] < issued[j]
    /\ applied.op = "insert" =>
           /\ applied.message_id = issued[Len(issued)]
           /\ \A i \in 1..Len(applied.pre_store.rows) :
                  applied.pre_store.rows[i].id < applied.message_id

C28_Witness ==
    /\ applied.op = "insert"
    /\ Len(issued) = 2
    /\ Len(recall.rows) = 1
    /\ issued[2] > issued[1]

IdsOf(rows) == {rows[i].id : i \in 1..Len(rows)}
MatchingIds(query) ==
    {recall.rows[i].id : i \in {k \in 1..Len(recall.rows) :
                                   Like(recall.rows[k].content, query)}}

\* C29: for a fixed corpus and query, search(query, limit, offset) returns
\* at most limit records, and the pages at offsets 0, limit, 2*limit, ... are
\* pairwise disjoint and together cover exactly the matching records, also
\* when matching records share a timestamp; conversation_search pages p and
\* p+1 return disjoint records for every p >= 0.  Stated at every search: the
\* result is one of the pages of its statement over the table as it is.
C29_PagesPartitionMatches ==
    applied.op \in {"search", "conversation_search"} =>
        LET n == Len(recall.rows)
            page == [k \in 0..(n + 1) |->
                        search_messages(recall, applied.query, applied.limit,
                                        k * applied.limit, applied.ties)]
            tool == [p \in 0..(n + 1) |->
                        conversation_search(recall, applied.query, p,
                                            applied.limit, applied.ties)]
        IN  /\ Len(applied.result) <= applied.limit
            /\ \E k \in 0..(n + 1) : /\ applied.offset = k * applied.limit
                               /\ applied.result = page[k]
            /\ \A k \in 0..(n + 1) : Cardinality(IdsOf(page[k])) = Len(page[k])
            /\ \A j, k \in 0..(n + 1) : j # k => IdsOf(page[j]) \cap IdsOf(page[k]) = {}
            /\ UNION {IdsOf(page[k]) : k \in 0..(n + 1)} = MatchingIds(applied.query)
            /\ \A p \in 0..n : IdsOf(tool[p]) \cap IdsOf(tool[p + 1]) = {}

C29_Witness ==
    /\ applied.op = "search"
    /\ applied.offset = applied.limit
    /\ Len(applied.result) >= 1
    /\ Cardinality(MatchingIds(applied.query)) = 3
    /\ \A i, j \in 1..Len(recall.rows) :
           recall.rows[i].timestamp = recall.rows[j].timestamp

\* the records by timestamp ascending, ties by id ascending
Chronological(rows) ==
    LET S == {rows[i] : i \in 1..Len(rows)}
        Earlier(a, b) == \/ a.timestamp < b.timestamp
                         \/ a.timestamp = b.timestamp /\ a.id < b.id
    IN  [k \in 1..Len(rows) |->
            CHOOSE r \in S : Cardinality({x \in S : Earlier(x, r)}) = k - 1]

\* C30: all() returns every record ordered by timestamp ascending with ties
\* broken by id ascending, and recent(limit) returns the limit most recent
\* records under that order (all of them if fewer exist) in ascending order,
\* also when records were inserted with timestamps out of insertion order.
C30_ChronologicalWithIdTieBreak ==
    LET expected == Chronological(recall.rows)
        n == Len(expected)
    IN  /\ applied.op = "all" => applied.result = expected
        /\ applied.op = "recent" =>
               applied.result
                   = SubSeq(expected,
                            IF n > applied.limit THEN n - applied.limit + 1 ELSE 1, n)


\* The rank of a document of the collection a search ran on: the number of
\* documents more similar to the query, equally similar ones taken in the
\* index's order.
SimilarityTo(content, query) ==
    1 - Distance(generate_embedding(content), generate_embedding(query))
RankIn(collection, doc_id, query, ties) ==
    LET doc == collection[doc_id]
        sim(x) == SimilarityTo(x.content, query)
    IN  Cardinality({i \in 1..Len(collection) :
            \/ sim(collection[i]) > sim(doc)
            \/ /\ sim(collection[i]) = sim(doc)
               /\ IF ties = "id ascending" THEN i < doc_id ELSE i > doc_id})
AtRanks(documents, collection, query, ties, offset, limit) ==
    /\ Len(documents) = Max(0, Min(limit, Len(collection) - offset))
    /\ \A k \in 1..Len(documents) :
        /\ documents[k].id \in 1..Len(collection)
        /\ documents[k].content = collection[documents[k].id].content
        /\ documents[k].similarity = SimilarityTo(documents[k].content, query)
        /\ RankIn(collection, documents[k].id, query, ties) = offset + k - 1

\* C31: every archival search, direct or through archival_memory_search,
\* returns without an error exactly the documents at ranks
\* [offset, offset + limit) of the collection in descending similarity (fewer
\* when the collection is smaller, none when offset is past the end), and
\* the page after a page of archival_memory_search holds the next ranks.
C31_SearchReturnsRanks ==
    applied.op \in {"search", "archival_memory_search"} =>
        /\ ~applied.raised
        /\ AtRanks(applied.documents, applied.pre_collection, applied.query,
                   applied.ties, applied.offset, applied.limit)
        /\ applied.op = "archival_memory_search" =>
            LET next == archival_memory_search(applied.pre_collection, applied.query,
                            applied.offset \div applied.limit + 1, applied.limit,
                            applied.ties, applied.on_zero)
            IN  /\ next.status = "success"
                /\ AtRanks(next.documents, applied.pre_collection, applied.query,
                           applied.ties, applied.offset + applied.limit, applied.limit)
                /\ \A i \in 1..Len(applied.documents), j \in 1..Len(next.documents) :
                       applied.documents[i].id # next.documents[j].id

\* C32: with callers sharing one recall store, under every interleaving each
\* finished insert returned without an exception the id of the row it
\* inserted, the ids returned are distinct, no row is made durable before its
\* own call commits nor missing after the call returned, and the rows' ids
\* ascend in the order in which the inserts took effect.
C32_WritesAreSerialized ==
    /\ applied.op = "callers"
    /\ \A t \in Callers :
        /\ applied.result[t].finished =>
            /\ ~applied.result[t].raised
            /\ applied.result[t].returned = applied.result[t].inserted
            /\ applied.pc[t] = "idle" => applied.result[t].inserted <= applied.durable
        /\ applied.pc[t] \in {"executed", "fetched", "checked"} =>
            applied.inserted[t] > applied.durable
    /\ \A i, j \in 1..Len(issued) : i # j => issued[i] # issued[j]
    /\ \A i \in 1..Len(recall.rows) : recall.rows[i].id = i

\* C33: one add_message call handles pressure once: it either appends the one
\* warning and persists nothing, or runs one eviction (the oldest
\* max(1, (n - 1) div 3) messages go to the recall store and the summary slot
\* is rewritten, no warning added), or leaves the appended queue as it is;
\* a queue still at the flush threshold afterwards waits for the next add.
C33_OnePressureActionPerAdd ==
    last.op = "add" =>
        LET k == Len(recall.rows) - Len(last.pre_store.rows)
        IN  \/ /\ last.ret /\ ~last.evicted
               /\ queue = Append(Appended, WarningMsg)
               /\ recall = last.pre_store
            \/ /\ ~last.ret /\ last.evicted
               /\ k = ClaimedK
               /\ Len(queue) = Len(Appended) - k
               /\ SubSeq(queue, 2, Len(queue)) = SubSeq(Appended, k + 2, Len(Appended))
            \/ /\ ~last.ret /\ ~last.evicted
               /\ queue = Appended
               /\ recall = last.pre_store
C33_Witness ==
    /\ last.op = "add"
    /\ last.evicted
    /\ Len(queue) > 1
    /\ AtFlush(config, count_message_tokens(queue))

\* What the stated rule counts for one field: a string's tokens, a map
\* stringified, a list item by item with the non-string items stringified;
\* fields of other types are not named by the rule.
ClaimedItemTokens(item) == Len(item.text)
ClaimedFieldTokens(value) ==
    CASE value.kind = "str" -> Len(value.text)
      [] value.kind = "dict" -> Len(value.text)
      [] value.kind = "list" ->
            LET n == Len(value.items)
                upto[k \in 0..n] ==
                    IF k = 0 THEN 0 ELSE upto[k - 1] + ClaimedItemTokens(value.items[k])
            IN  upto[n]
      [] OTHER -> 0
ClaimedMessageTokens(message) ==
    LET n == Len(message)
        upto[k \in 0..n] ==
            IF k = 0 THEN 0 ELSE upto[k - 1] + ClaimedFieldTokens(message[k].value)
    IN  4 + upto[n]
ClaimedCount(messages) ==
    LET n == Len(messages)
        upto[k \in 0..n] ==
            IF k = 0 THEN 0 ELSE upto[k - 1] + ClaimedMessageTokens(messages[k])
    IN  upto[n] + 2

\* C34: for every list of messages, the empty list and messages with a
\* metadata map included, count_message_tokens is 4 per message plus the
\* tokens of every string, list and map-valued field plus a primer of 2.
C34_CountIsOverheadFieldsPrimer ==
    applied.op = "count_message_tokens" =>
        applied.result = ClaimedCount(applied.messages)

\* The rows a load left for session number i of its document, in id order:
\* in the store "global" for the flat list (session "default") and the
\* session mapping, in the conversation's store for the nested shapes.
SessionRows(i) ==
    LET name == IF applied.doc.shape \in {"flat list", "session mapping"}
                THEN "global" ELSE "c1"
        session_id == IF applied.doc.shape = "flat list" THEN "default" ELSE SessionIds[i]
        held == SelectSeq(applied.stores, LAMBDA st : st.name = name)
    IN  IF held = << >> THEN << >>
        ELSE SelectSeq(held[1].store.rows,
                       LAMBDA row : row.metadata = SessionMetadata(session_id))

\* C35: in each of the four JSON shapes, loading a document does not fail
\* on a session of bare strings and stores them in order with roles user,
\* assistant, user, ...
C35_BareStringsAlternate ==
    applied.op = "ingest" =>
        \A i \in 1..Len(applied.doc.sessions) :
            applied.doc.sessions[i].bare /\ applied.doc.sessions[i].n > 0 =>
                /\ ~applied.raised
                /\ Len(SessionRows(i)) = applied.doc.sessions[i].n
                /\ \A k \in 1..Len(SessionRows(i)) :
                    /\ SessionRows(i)[k].content = LineText(k)
                    /\ SessionRows(i)[k].role =
                           (IF k % 2 = 1 THEN "user" ELSE "assistant")

\* The size of the queue as get_queue_size counts it, summed slot by slot.
QueueTokens ==
    LET n == Len(queue)
        upto[k \in 0..n] == IF k = 0 THEN 0 ELSE upto[k - 1] + MessageTokens(queue[k])
    IN  IF n = 0 THEN 0 ELSE upto[n] + ReplyPrimer

\* The least size at which the agent's queue manager flushes.
AgentFlushTokens ==
    CHOOSE t \in 0..AgentConfig.max_tokens :
        /\ AtFlush(AgentConfig, t)
        /\ \A u \in 0..(t - 1) : ~AtFlush(AgentConfig, u)

\* C36: in a session whose adds are the agent's user, assistant and function
\* messages, a queue that has reached the flush threshold while the session
\* goes on (a further turn is still to add its messages) is eventually
\* evicted from: the recall store receives records.
C36_FlushLeadsToEviction ==
    (QueueTokens >= AgentFlushTokens /\ turns < MaxPressureTurns)
        ~> (recall.rows # << >>)

(********************* claims on turns with resets *************************)
\* C37: in every heartbeat iteration, also in turns after reset(), the working
\* context rendered into the prompt and returned by get_core_memory() is the
\* working context the tool calls modify, so that what a successful
\* core-memory call of one iteration wrote is in the prompt of the next.
C37_PromptShowsToolMemory ==
    applied.op = "iteration" =>
        /\ applied.context[1] =
               Message("system",
                       SystemPromptText \o <<"\n\n">>
                           \o CoreMemory_to_string(applied.tool_sections),
                       NoMetadata)
        /\ applied.snapshot = applied.tool_sections

\* C38: reset() leaves the queue with one slot, the running summary as it was
\* before the call, puts the working context back to the initial persona and
\* human sections, and leaves the recall and archival stores as they were:
\* the queued messages are dropped without being persisted.
C38_ResetFrame ==
    [][issued' # issued =>
           /\ queue' = <<queue[1]>>
           /\ core_memory' = InitialSections
           /\ MemGPTAgent_build_context(core_memory', queue') =
                  MemGPTAgent_build_context(InitialSections, <<queue[1]>>)
           /\ recall' = recall
           /\ archival_storage' = archival_storage]_vars

\* reset() has just dropped queued messages of a session with an edited
\* working context, a written summary and rows in both stores
C38_Witness ==
    /\ applied.op = "reset"
    /\ queue = <<applied.pre_queue[1]>>
    /\ Len(applied.pre_queue) > 1
    /\ applied.pre_queue[1] # EmptySummary
    /\ applied.pre_sections # InitialSections
    /\ recall.rows # << >>
    /\ archival_storage # EmptyCollection

(************************ claims on the converters *************************)
\* C39: within a converted session, whatever its length and base timestamp,
\* the timestamp of message i+1 is not earlier than that of message i, and is
\* later than it, so that a store sorted by time lists them in order.
C39_TimestampsKeepOrder ==
    applied.op = "converted" =>
        \A i \in 1..(Len(applied.messages) - 1) :
            /\ ~TextBefore(applied.messages[i + 1].timestamp, applied.messages[i].timestamp)
            /\ TextBefore(applied.messages[i].timestamp, applied.messages[i + 1].timestamp)

=============================================================================
